---------------------------- MODULE Spec2Model ----------------------------
(***************************************************************************)
(* Model of geodesy/ellipsoidalVincenty.py: class LatLon with its          *)
(* convergence configuration (epsilon, iterations), copy(), and Vincenty's *)
(* direct and inverse methods.                                             *)
(*                                                                         *)
(* Numbers.  Python floats are modelled as fixed-point numbers: the        *)
(* integer n stands for n / SCALE.  Angles are radians or degrees, lengths *)
(* are megameters (so one unit of a length is one meter).  All arithmetic  *)
(* truncates toward zero and stays within 32 bits.                         *)
(***************************************************************************)
EXTENDS Integers, Sequences, FiniteSets, TLC

(***************************************************************************)
(* Fixed-point arithmetic standing for Python float arithmetic.            *)
(***************************************************************************)
KILO == 1000
SCALE == KILO * KILO

Abs(x) == IF x < 0 THEN -x ELSE x

Sgn(x) == IF x < 0 THEN -1 ELSE IF x > 0 THEN 1 ELSE 0

Max(x, y) == IF x >= y THEN x ELSE y

Min(x, y) == IF x <= y THEN x ELSE y

\* floor(a * b / SCALE) for a, b >= 0, computed in parts that fit 32 bits
MulAbs(a, b) ==
    LET a1 == a \div KILO
        a0 == a % KILO
        b1 == b \div KILO
        b0 == b % KILO
    IN  a1 * b1 + ((a1 * b0 + a0 * b1 + ((a0 * b0) \div KILO)) \div KILO)

\* x * y
Mul(x, y) == Sgn(x) * Sgn(y) * MulAbs(Abs(x), Abs(y))

\* the n next decimal digits of r / b, for 0 <= r < b
RECURSIVE DivDigits(_, _, _)
DivDigits(r, b, n) ==
    IF n = 0 THEN 0
    ELSE LET r10 == r * 10
         IN  ((r10 \div b) * (IF n = 6 THEN 100000 ELSE IF n = 5 THEN 10000
                              ELSE IF n = 4 THEN 1000 ELSE IF n = 3 THEN 100
                              ELSE IF n = 2 THEN 10 ELSE 1))
             + DivDigits(r10 % b, b, n - 1)

\* floor(a * SCALE / b) for a >= 0, b > 0, by long division
DivAbs(a, b) == (a \div b) * SCALE + DivDigits(a % b, b, 6)

\* x / y, y # 0
Div(x, y) == Sgn(x) * Sgn(y) * DivAbs(Abs(x), Abs(y))

\* Newton's iteration for the square root of v, n more rounds from guess g
RECURSIVE SqrtNewton(_, _, _)
SqrtNewton(v, g, n) ==
    IF n = 0 THEN g ELSE SqrtNewton(v, (g + DivAbs(v, g)) \div 2, n - 1)

\* sqrt(v) for 1 <= v <= 2
Sqrt12(v) == SqrtNewton(v, (v + SCALE) \div 2, 4)

\* math.hypot(x, y) = sqrt(x*x + y*y), scaled by the larger argument
hypot(x, y) ==
    LET m == Max(Abs(x), Abs(y))
        n == Min(Abs(x), Abs(y))
        r == DivAbs(n, m)
    IN  IF m = 0 THEN 0 ELSE MulAbs(m, Sqrt12(SCALE + MulAbs(r, r)))

PI == 3141593
TWO_PI == 6283185
HALF_PI == 1570796
QUARTER_PI == 785398

\* 1 - x2/((n-1)n) (1 - x2/((n+1)(n+2)) (1 - ...)), the Taylor series of
\* sin(x)/x (odd n from 3) and cos(x) (even n from 2) in Horner form
RECURSIVE TaylorH(_, _)
TaylorH(x2, n) ==
    IF n > 15 THEN SCALE
    ELSE SCALE - (Mul(x2, TaylorH(x2, n + 2)) \div ((n - 1) * n))

\* x reduced into [-PI, PI]
Reduce(x) ==
    LET y == x % TWO_PI
    IN  IF y > PI THEN y - TWO_PI ELSE y

\* sin for |x| <= PI
SinR(x) ==
    LET a == Abs(x)
        b == IF a > HALF_PI THEN PI - a ELSE a
    IN  Sgn(x) * Mul(b, TaylorH(Mul(b, b), 3))

\* cos for |x| <= PI
CosR(x) ==
    LET a == Abs(x)
        b == IF a > HALF_PI THEN PI - a ELSE a
    IN  (IF a > HALF_PI THEN -1 ELSE 1) * TaylorH(Mul(b, b), 2)

\* math.sin
sin(x) == SinR(Reduce(x))

\* math.cos
cos(x) == CosR(Reduce(x))

\* the largest magnitude math.tan is modelled to return: the tangent of
\* angles within 0.29 degrees of 90 degrees is beyond the fixed-point range
TanBig == 200 * SCALE

\* math.tan
tan(x) ==
    LET Ratio(s, c) ==
            IF c = 0 THEN Sgn(s) * TanBig
            ELSE IF Abs(s) >= 200 * Abs(c) THEN Sgn(s) * Sgn(c) * TanBig
            ELSE Div(s, c)
    IN  Ratio(sin(x), cos(x))

\* 1/n - z2 (1/(n+2) - z2 (...)), the Taylor series of atan(z)/z
RECURSIVE AtanH(_, _)
AtanH(z2, n) ==
    IF n > 19 THEN 0
    ELSE (SCALE \div n) - Mul(z2, AtanH(z2, n + 2))

\* atan for |z| <= tan(PI/8)
AtanT(z) == Mul(z, AtanH(Mul(z, z), 1))

\* atan for 0 <= z <= 1
Atan01(z) ==
    IF z <= 414214 THEN AtanT(z)
    ELSE QUARTER_PI + AtanT(Div(z - SCALE, z + SCALE))

\* math.atan2(y, x), in (-PI, PI]
atan2(y, x) ==
    LET ax == Abs(x)
        ay == Abs(y)
        base == IF ax >= ay THEN Atan01(DivAbs(ay, ax))
                ELSE HALF_PI - Atan01(DivAbs(ax, ay))
    IN  IF x = 0 /\ y = 0 THEN 0
        ELSE IF x >= 0 THEN Sgn(y) * base
        ELSE IF y >= 0 THEN PI - base
        ELSE base - PI

(***************************************************************************)
(* Python numbers handed to the property setters.  An int n is             *)
(* [t |-> "int", n |-> n].  A float is [t |-> "float", u |-> u, p |-> p]:  *)
(* the value u / 10^6 + p / 10^12 with 0 <= p < 10^6, so that 1e-12 and    *)
(* the neighbours of 1.0 are exact.                                        *)
(***************************************************************************)
PyInt(n) == [t |-> "int", n |-> n]

PyFloat(u, p) == [t |-> "float", u |-> u, p |-> p]

\* x < y for two floats
FloatLt(x, y) == x.u < y.u \/ (x.u = y.u /\ x.p < y.p)

\* x == y for two Python numbers (1 == 1.0 is True)
NumEq(x, y) ==
    LET fx == IF x.t = "int" THEN PyFloat(x.n * SCALE, 0) ELSE x
        fy == IF y.t = "int" THEN PyFloat(y.n * SCALE, 0) ELSE y
    IN  fx.u = fy.u /\ fx.p = fy.p

\* int(x) as a rounding to the nearest integer instead of a truncation
int_Rounding(x) ==
    IF x.t = "int" THEN x
    ELSE IF x.u >= 0 THEN PyInt((x.u + 500000) \div SCALE)
    ELSE PyInt(-((-x.u + 500000) \div SCALE))

\* float(x): an int becomes the float of the same value
float(x) == IF x.t = "int" THEN PyFloat(x.n * SCALE, 0) ELSE x

\* int(x): a float is truncated toward zero
int(x) ==
    IF x.t = "int" THEN x
    ELSE IF x.u >= 0 THEN PyInt(x.u \div SCALE)
    ELSE PyInt(-((-x.u - (IF x.p > 0 THEN 1 ELSE 0)) \div SCALE))

\* a fixed-point magnitude d compared with a float: d < eps
LtEps(d, eps) == FloatLt(PyFloat(d, 0), eps)

(***************************************************************************)
(* Ellipsoids and datums (module datum): semi-axes a, b in meters,         *)
(* flattening f and e22 = (a / b)^2 - 1.                                   *)
(***************************************************************************)
Ellipsoids ==
    [WGS84    |-> [name |-> "WGS84", a |-> 6378137, b |-> 6356752,
                   f |-> 3353, e22 |-> 6739],
     GRS80    |-> [name |-> "GRS80", a |-> 6378137, b |-> 6356752,
                   f |-> 3353, e22 |-> 6739],
     Airy1830 |-> [name |-> "Airy1830", a |-> 6377563, b |-> 6356257,
                   f |-> 3341, e22 |-> 6715]]

Datums ==
    [WGS84  |-> [name |-> "WGS84", ellipsoid |-> Ellipsoids.WGS84],
     NAD83  |-> [name |-> "NAD83", ellipsoid |-> Ellipsoids.GRS80],
     OSGB36 |-> [name |-> "OSGB36", ellipsoid |-> Ellipsoids.Airy1830]]

(***************************************************************************)
(* class LatLon                                                            *)
(***************************************************************************)
\* class attribute _epsilon = 1.0e-12
_epsilon == PyFloat(0, 1)

\* another default for the iteration limit
_iterations_Other == PyInt(100)

\* class attribute _iterations = 50
_iterations == PyInt(50)

\* LatLon(lat, lon, height=height, datum=datum): lat and lon in degrees; the
\* convergence parameters are the class attributes until assigned
LatLon(lat, lon, height, datum) ==
    [lat |-> lat, lon |-> lon, height |-> height, datum |-> datum,
     _epsilon |-> _epsilon, _iterations |-> _iterations]

\* property epsilon (getter)
epsilon(p) == p._epsilon

\* property iterations (getter)
iterations(p) == p._iterations

\* the epsilon range test with the upper end included
EpsilonAccepted_Closed(eps) ==
    FloatLt(PyFloat(0, 0), float(eps)) /\ ~FloatLt(PyFloat(SCALE, 0), float(eps))

\* the range test of the epsilon setter: 0 < float(eps) < 1
EpsilonAccepted(eps) ==
    FloatLt(PyFloat(0, 0), float(eps)) /\ FloatLt(float(eps), PyFloat(SCALE, 0))

\* epsilon setter: the point after  p.epsilon = eps
epsilon_setter(p, eps) ==
    IF EpsilonAccepted(eps) THEN [p EXCEPT !._epsilon = float(eps)] ELSE p

\* the iterations range test with the lower end included
IterationsAccepted_Closed(limit) == 2 <= int(limit).n /\ int(limit).n < 200

\* the range test of the iterations setter: 2 < int(limit) < 200
IterationsAccepted(limit) == 2 < int(limit).n /\ int(limit).n < 200

\* iterations setter: the point after  p.iterations = limit
iterations_setter(p, limit) ==
    IF IterationsAccepted(limit) THEN [p EXCEPT !._iterations = int(limit)] ELSE p

\* _LatLonHeightDatumBase.copy: a new point of the same class with the same
\* latitude, longitude, height and datum
BaseCopy(p) == LatLon(p.lat, p.lon, p.height, p.datum)

\* a copy that carries over epsilon and not the iteration limit
copy_EpsilonOnly(p) == epsilon_setter(BaseCopy(p), epsilon(p))

\* LatLon.copy: the base copy, then epsilon and iterations assigned through
\* the setters
copy(p) == iterations_setter(epsilon_setter(BaseCopy(p), epsilon(p)), iterations(p))

(***************************************************************************)
(* Module utils: EPS and the conversions between degrees and radians.      *)
(***************************************************************************)
\* utils.EPS, the float epsilon: below the resolution of the fixed-point
\* numbers, so that x < EPS holds of the numbers x <= 0 only
EPS == 1

\* utils.radians: degrees to radians
radians(deg) == Sgn(deg) * (MulAbs(Abs(deg), PI) \div 180)

\* math.degrees: radians to degrees
degrees(rad) == Div(rad * 180, PI)

\* utils.degrees360: radians to degrees in [0, 360)
degrees360(rad) == degrees(rad) % (360 * SCALE)

\* degrees wrapped into (wrap - 360, wrap]
Wrap(deg, wrap) ==
    LET d == deg % (360 * SCALE)
    IN  IF d > wrap * SCALE THEN d - 360 * SCALE ELSE d

\* utils.degrees90: radians to degrees, wrapped at 90
degrees90(rad) == Wrap(degrees(rad), 90)

\* utils.degrees180: radians to degrees in (-180, 180]
degrees180(rad) == Wrap(degrees(rad), 180)

(***************************************************************************)
(* The series of Vincenty's formulae (module functions).                   *)
(***************************************************************************)
\* _p2(c2a, ab2): the polynomials A and B, as <<A, B>>.  u2 / 16384 * (4096
\* + x) is computed as u2 / 4 + u2 * x / 16384, and B likewise
_p2(c2a, ab2) ==
    LET u2 == Mul(c2a, ab2)
        x == Mul(u2, -768 * SCALE + Mul(u2, 320 * SCALE - 175 * u2))
        y == Mul(u2, -128 * SCALE + Mul(u2, 74 * SCALE - 47 * u2))
    IN  << (u2 \div 4) + (Mul(u2, x) \div 16384) + SCALE,
           (u2 \div 4) + (Mul(u2, y) \div 1024) >>

\* _r3(a, f): the reduced cos, sin, tan of latitude a, as <<c, s, t>>
_r3(a, f) ==
    LET Triplet(t, c) == << c, Mul(t, c), t >>
        Reduced(t) == Triplet(t, Div(SCALE, hypot(SCALE, t)))
    IN  Reduced(Mul(SCALE - f, tan(radians(a))))

\* _dl(f, c2a, sa, s, cs, ss, c2sm)
_dl(f, c2a, sa, s, cs, ss, c2sm) ==
    LET C == Mul(Mul(f \div 16, c2a), 4 * SCALE + Mul(f, 4 * SCALE - 3 * c2a))
    IN  Mul(Mul(Mul(SCALE - C, f), sa),
            s + Mul(Mul(C, ss),
                    c2sm + Mul(Mul(C, cs), Mul(c2sm, c2sm) * 2 - SCALE)))

\* _ds(B, cs, ss, c2sm)
_ds(B, cs, ss, c2sm) ==
    LET c2sm2 == 2 * Mul(c2sm, c2sm) - SCALE
        ss2 == Mul(Mul(ss, ss) * 4 - 3 * SCALE, c2sm2 * 2 - SCALE)
    IN  Mul(Mul(B, ss),
            c2sm + Mul(B \div 4, Mul(c2sm2, cs) - Mul(Mul(B \div 6, c2sm), ss2)))

\* LatLon.ellipsoid(): the ellipsoid of the point's datum
ellipsoid(p) == Datums[p.datum].ellipsoid

(***************************************************************************)
(* The state.                                                              *)
(*   pts     the LatLon objects created so far, in order of creation       *)
(*   copyOf  for each point the index of the point it was copied from,     *)
(*           0 for a constructed point (history, not read by any action)   *)
(*   assigned  for each point whether a setter has been called on it        *)
(*           (history, not read by any action)                             *)
(*   call    the frame of the running _direct or _inverse, or Idle         *)
(*   ret     what the most recent completed call returned or raised        *)
(*   raised  the errors raised so far, each as its class and message        *)
(*           (history, not read by any action)                             *)
(*   parked  the frame of a call of another thread that is not running     *)
(*           now, or Idle                                                  *)
(***************************************************************************)
VARIABLES pts, copyOf, assigned, call, ret, raised, parked

vars == <<pts, copyOf, assigned, call, ret, raised, parked>>

\* the most points a behaviour creates
MaxPoints == 2

Idle == [pc |-> "idle"]

\* the record of a completed call: exc is "none" for a normal return
Returned(op, self, arg, val) ==
    [op |-> op, self |-> self, arg |-> arg, exc |-> "none", val |-> val]

NoRet == [op |-> "none"]

\* degrees and meters as fixed-point numbers: Deg(41, 490080) is 41.49008
Deg(whole, frac) == whole * SCALE + frac

\* the point the behaviours construct: <<lat, lon, height, datum>>
Places == { <<Deg(50, 66320), -Deg(5, 714750), 12, "OSGB36">> }

\* the arguments assigned to epsilon: ints and floats, out of range (0, 1,
\* -1e-12, 1.0, 1.5) and in range (1e-12, 1 - 1e-12)
EpsilonArgs ==
    { PyInt(0), PyInt(1), PyFloat(-1, 999999), PyFloat(SCALE, 0),
      PyFloat(1500000, 0), PyFloat(0, 1), PyFloat(999999, 999999) }

\* the arguments assigned to iterations: ints and floats, out of range (2,
\* 200, -7, 200.0, -0.5), in range by their integer part (3, 199, 3.5,
\* 199.999999999999) and between 2 and 3 (2.999999999999)
IterationsArgs ==
    { PyInt(2), PyInt(200), PyInt(-7), PyFloat(200 * SCALE, 0),
      PyFloat(-500000, 0), PyInt(3), PyInt(199), PyFloat(3 * SCALE + 500000, 0),
      PyFloat(199 * SCALE + 999999, 999999), PyFloat(2 * SCALE + 999999, 999999) }

\* p = LatLon(lat, lon, height=h, datum=d)
Construct(place) ==
    /\ call = Idle
    /\ Len(pts) < MaxPoints
    /\ pts' = Append(pts, LatLon(place[1], place[2], place[3], place[4]))
    /\ copyOf' = Append(copyOf, 0)
    /\ assigned' = Append(assigned, FALSE)
    /\ ret' = Returned("LatLon", Len(pts) + 1, place, Len(pts) + 1)
    /\ UNCHANGED <<call, raised, parked>>

\* pts[i].epsilon = eps
SetEpsilon(i, eps) ==
    /\ call = Idle
    /\ pts' = [pts EXCEPT ![i] = epsilon_setter(pts[i], eps)]
    /\ assigned' = [assigned EXCEPT ![i] = TRUE]
    /\ ret' = Returned("epsilon.setter", i, eps, <<>>)
    /\ UNCHANGED <<copyOf, call, raised, parked>>

\* pts[i].iterations = limit
SetIterations(i, limit) ==
    /\ call = Idle
    /\ pts' = [pts EXCEPT ![i] = iterations_setter(pts[i], limit)]
    /\ assigned' = [assigned EXCEPT ![i] = TRUE]
    /\ ret' = Returned("iterations.setter", i, limit, <<>>)
    /\ UNCHANGED <<copyOf, call, raised, parked>>

\* q = pts[i].copy()
Copy(i) ==
    /\ call = Idle
    /\ Len(pts) < MaxPoints
    /\ pts' = Append(pts, copy(pts[i]))
    /\ copyOf' = Append(copyOf, i)
    /\ assigned' = Append(assigned, TRUE)
    /\ ret' = Returned("copy", i, <<>>, Len(pts) + 1)
    /\ UNCHANGED <<call, raised, parked>>

(***************************************************************************)
(* The convergence configuration alone: points are constructed, copied and *)
(* assigned to, and no solve runs.                                         *)
(***************************************************************************)
Init ==
    /\ pts = <<>>
    /\ copyOf = <<>>
    /\ assigned = <<>>
    /\ call = Idle
    /\ ret = NoRet
    /\ raised = {}
    /\ parked = Idle

Next ==
    \/ \E place \in Places : Construct(place)
    \/ \E i \in 1..Len(pts), eps \in EpsilonArgs : SetEpsilon(i, eps)
    \/ \E i \in 1..Len(pts), limit \in IterationsArgs : SetIterations(i, limit)
    \/ \E i \in 1..Len(pts) : Copy(i)

Spec == Init /\ [][Next]_vars

(***************************************************************************)
(* Vincenty's direct method, LatLon._direct, one loop iteration per step.  *)
(***************************************************************************)
\* the record of a call of _direct or _inverse that returned val (exc =
\* "none") or raised exc with message val, after n iterations of its loop;
\* hist lists the value of the iterated variable before the loop and after
\* each iteration (history)
Outcome(op, self, arg, exc, val, n, hist) ==
    [op |-> op, self |-> self, arg |-> arg, exc |-> exc, val |-> val,
     n |-> n, hist |-> hist]

\* the error a completed call raised, as the set of its class and message
\* (empty if it returned)
Errors(r) ==
    IF r = NoRet \/ r.exc = "none" THEN {}
    ELSE {[exc |-> r.exc, text |-> r.val.text]}

\* the public methods on _direct and the llr flag each passes
DirectOps == {"destination", "destination2", "finalBearingOn"}

\* every method asking for the destination
llrOf_Always(op) == op \in DirectOps

llrOf(op) == op # "finalBearingOn"

\* a solver that keeps the last iterate of the previous direct solve and
\* starts the next loop from it
DirectFrameAt_Warm(self, i, op, distance, bearing) ==
    LET E == ellipsoid(self)
        r3 == _r3(self.lat, E.f)
        c1 == r3[1]
        s1 == r3[2]
        t1 == r3[3]
        ib == radians(bearing)
        ci == cos(ib)
        si == sin(ib)
        s12 == atan2(t1, ci) * 2
        sa == Mul(c1, si)
        c2a0 == SCALE - Mul(sa, sa)
        c2a == IF c2a0 < EPS THEN 0 ELSE c2a0
        AB == IF c2a0 < EPS THEN <<SCALE, 0>> ELSE _p2(c2a, E.e22)
        d == Div(distance, Mul(E.b, AB[1]))
    IN  [pc |-> "loop", method |-> "_direct", op |-> op, self |-> i,
         arg |-> <<distance, bearing>>, llr |-> llrOf(op), E |-> E,
         c1 |-> c1, s1 |-> s1, ci |-> ci, si |-> si, s12 |-> s12,
         sa |-> sa, c2a |-> c2a, A |-> AB[1], B |-> AB[2], d |-> d,
         s |-> IF ret.op \in DirectOps /\ ret.hist # <<>>
               THEN ret.hist[Len(ret.hist)] ELSE d,
         cs |-> <<>>, ss |-> <<>>, c2sm |-> <<>>,
         n |-> 0, limit |-> iterations(self).n, hist |-> <<d>>]

\* the frame with A = 1 and B = 1 in the degenerate case
DirectFrameAt_Unit(self, i, op, distance, bearing) ==
    LET E == ellipsoid(self)
        r3 == _r3(self.lat, E.f)
        c1 == r3[1]
        s1 == r3[2]
        t1 == r3[3]
        ib == radians(bearing)
        ci == cos(ib)
        si == sin(ib)
        s12 == atan2(t1, ci) * 2
        sa == Mul(c1, si)
        c2a0 == SCALE - Mul(sa, sa)
        c2a == IF c2a0 < EPS THEN 0 ELSE c2a0
        AB == IF c2a0 < EPS THEN <<SCALE, SCALE>> ELSE _p2(c2a, E.e22)
        d == Div(distance, Mul(E.b, AB[1]))
    IN  [pc |-> "loop", method |-> "_direct", op |-> op, self |-> i,
         arg |-> <<distance, bearing>>, llr |-> llrOf(op), E |-> E,
         c1 |-> c1, s1 |-> s1, ci |-> ci, si |-> si, s12 |-> s12,
         sa |-> sa, c2a |-> c2a, A |-> AB[1], B |-> AB[2], d |-> d,
         s |-> d, cs |-> <<>>, ss |-> <<>>, c2sm |-> <<>>,
         n |-> 0, limit |-> iterations(self).n, hist |-> <<d>>]

\* _direct up to the loop, called on the point self (the i-th point): the
\* locals of the frame
DirectFrameAt(self, i, op, distance, bearing) ==
    LET E == ellipsoid(self)
        r3 == _r3(self.lat, E.f)
        c1 == r3[1]
        s1 == r3[2]
        t1 == r3[3]
        ib == radians(bearing)
        ci == cos(ib)
        si == sin(ib)
        s12 == atan2(t1, ci) * 2
        sa == Mul(c1, si)
        c2a0 == SCALE - Mul(sa, sa)
        c2a == IF c2a0 < EPS THEN 0 ELSE c2a0
        AB == IF c2a0 < EPS THEN <<SCALE, 0>> ELSE _p2(c2a, E.e22)
        d == Div(distance, Mul(E.b, AB[1]))
    IN  [pc |-> "loop", method |-> "_direct", op |-> op, self |-> i,
         arg |-> <<distance, bearing>>, llr |-> llrOf(op), E |-> E,
         c1 |-> c1, s1 |-> s1, ci |-> ci, si |-> si, s12 |-> s12,
         sa |-> sa, c2a |-> c2a, A |-> AB[1], B |-> AB[2], d |-> d,
         s |-> d, cs |-> <<>>, ss |-> <<>>, c2sm |-> <<>>,
         n |-> 0, limit |-> iterations(self).n, hist |-> <<d>>]

\* the frame of _direct called on the i-th point
DirectFrame(i, op, distance, bearing) ==
    DirectFrameAt(pts[i], i, op, distance, bearing)

\* a loop that runs one iteration more than the limit
Exhausted_Late(n, limit) == n >= limit + 1

\* a range that ends one iteration early
Exhausted_Early(n, limit) == n >= limit - 1

\* range(self._iterations) is exhausted after n iterations
Exhausted(n, limit) == n >= limit

\* the test without abs: a decrease of any size passes
Converged_Signed(new, old, eps) == new < old \/ LtEps(Abs(new - old), eps)

\* the test  abs(s - s_) < self._epsilon  (abs(ll - ll_) in _inverse)
Converged(new, old, eps) == LtEps(Abs(new - old), eps)

\* a call of destination, destination2 or finalBearingOn enters _direct
DirectCall(i, op, distance, bearing) ==
    /\ call = Idle
    /\ call' = DirectFrame(i, op, distance, bearing)
    /\ ret' = NoRet
    /\ raised' = raised \cup Errors(ret')
    /\ UNCHANGED <<pts, copyOf, assigned, parked>>

\* the body of the loop of _direct on frame f, with the receiver's epsilon
DirectBody(f, eps) ==
    LET cs == cos(f.s)
        ss == sin(f.s)
        c2sm == cos(f.s12 + f.s)
        s == f.d + _ds(f.B, cs, ss, c2sm)
    IN  [f EXCEPT !.cs = <<cs>>, !.ss = <<ss>>, !.c2sm = <<c2sm>>,
                  !.s = s, !.n = f.n + 1, !.hist = Append(f.hist, s),
                  !.pc = IF Converged(s, f.s, eps) THEN "break" ELSE "loop"]

\* one iteration of the for loop of _direct; a converged iteration breaks
DirectIter ==
    /\ call.pc = "loop" /\ call.method = "_direct"
    /\ ~Exhausted(call.n, call.limit)
    /\ call' = DirectBody(call, epsilon(pts[call.self]))
    /\ UNCHANGED <<pts, copyOf, assigned, ret, raised, parked>>

\* the failure raised without the start point in its message
DirectNoConvergence_Anonymous ==
    /\ call.pc = "loop" /\ call.method = "_direct"
    /\ Exhausted(call.n, call.limit)
    /\ ret' = Outcome(call.op, call.self, call.arg, "VincentyError",
                      [text |-> "no convergence", points |-> <<>>],
                      call.n, call.hist)
    /\ call' = Idle
    /\ raised' = raised \cup Errors(ret')
    /\ UNCHANGED <<pts, copyOf, assigned, parked>>

\* the else clause of the for loop: raise VincentyError('no convergence ...')
DirectNoConvergence ==
    /\ call.pc = "loop" /\ call.method = "_direct"
    /\ Exhausted(call.n, call.limit)
    /\ ret' = Outcome(call.op, call.self, call.arg, "VincentyError",
                      [text |-> "no convergence", points |-> <<call.self>>],
                      call.n, call.hist)
    /\ call' = Idle
    /\ raised' = raised \cup Errors(ret')
    /\ UNCHANGED <<pts, copyOf, assigned, parked>>

\* the value with the destination longitude left as the angle computed
DirectValueAt_Unwrapped(f, self) ==
    LET cs == f.cs[1]
        ss == f.ss[1]
        c2sm == f.c2sm[1]
        t == Mul(f.s1, ss) - Mul(Mul(f.c1, cs), f.ci)
        r == degrees360(atan2(f.sa, -t))
        a == degrees90(atan2(Mul(f.s1, cs) + Mul(Mul(f.c1, ss), f.ci),
                             Mul(SCALE - f.E.f, hypot(f.sa, t))))
        b == degrees(atan2(Mul(ss, f.si),
                              Mul(f.c1, cs) - Mul(Mul(f.s1, ss), f.ci))
                        - _dl(f.E.f, f.c2a, f.sa, f.s, cs, ss, c2sm)
                        + radians(self.lon))
        dest == LatLon(a, b, self.height, self.datum)
    IN  IF ~f.llr THEN <<r>>
        ELSE IF f.op = "destination" THEN <<dest>>
        ELSE <<dest, r>>

\* the value with the destination built without the height keyword (the
\* default height 0)
DirectValueAt_Grounded(f, self) ==
    LET cs == f.cs[1]
        ss == f.ss[1]
        c2sm == f.c2sm[1]
        t == Mul(f.s1, ss) - Mul(Mul(f.c1, cs), f.ci)
        r == degrees360(atan2(f.sa, -t))
        a == degrees90(atan2(Mul(f.s1, cs) + Mul(Mul(f.c1, ss), f.ci),
                             Mul(SCALE - f.E.f, hypot(f.sa, t))))
        b == degrees180(atan2(Mul(ss, f.si),
                              Mul(f.c1, cs) - Mul(Mul(f.s1, ss), f.ci))
                        - _dl(f.E.f, f.c2a, f.sa, f.s, cs, ss, c2sm)
                        + radians(self.lon))
        dest == LatLon(a, b, 0, self.datum)
    IN  IF ~f.llr THEN <<r>>
        ELSE IF f.op = "destination" THEN <<dest>>
        ELSE <<dest, r>>

\* the value with the destination point given the convergence parameters of
\* the start point
DirectValueAt_Configured(f, self) ==
    LET cs == f.cs[1]
        ss == f.ss[1]
        c2sm == f.c2sm[1]
        t == Mul(f.s1, ss) - Mul(Mul(f.c1, cs), f.ci)
        r == degrees360(atan2(f.sa, -t))
        a == degrees90(atan2(Mul(f.s1, cs) + Mul(Mul(f.c1, ss), f.ci),
                             Mul(SCALE - f.E.f, hypot(f.sa, t))))
        b == degrees180(atan2(Mul(ss, f.si),
                              Mul(f.c1, cs) - Mul(Mul(f.s1, ss), f.ci))
                        - _dl(f.E.f, f.c2a, f.sa, f.s, cs, ss, c2sm)
                        + radians(self.lon))
        dest == [LatLon(a, b, self.height, self.datum)
                   EXCEPT !._epsilon = self._epsilon,
                          !._iterations = self._iterations]
    IN  IF ~f.llr THEN <<r>>
        ELSE IF f.op = "destination" THEN <<dest>>
        ELSE <<dest, r>>

\* _direct after the loop, called on the point self: the final bearing and,
\* with llr, the destination
DirectValueAt(f, self) ==
    LET cs == f.cs[1]
        ss == f.ss[1]
        c2sm == f.c2sm[1]
        t == Mul(f.s1, ss) - Mul(Mul(f.c1, cs), f.ci)
        r == degrees360(atan2(f.sa, -t))
        a == degrees90(atan2(Mul(f.s1, cs) + Mul(Mul(f.c1, ss), f.ci),
                             Mul(SCALE - f.E.f, hypot(f.sa, t))))
        b == degrees180(atan2(Mul(ss, f.si),
                              Mul(f.c1, cs) - Mul(Mul(f.s1, ss), f.ci))
                        - _dl(f.E.f, f.c2a, f.sa, f.s, cs, ss, c2sm)
                        + radians(self.lon))
        dest == LatLon(a, b, self.height, self.datum)
    IN  IF ~f.llr THEN <<r>>
        ELSE IF f.op = "destination" THEN <<dest>>
        ELSE <<dest, r>>

\* the value _direct returns from frame f
DirectValue(f) == DirectValueAt(f, pts[f.self])

\* _direct returns after a break
DirectReturn ==
    /\ call.pc = "break" /\ call.method = "_direct"
    /\ ret' = Outcome(call.op, call.self, call.arg, "none", DirectValue(call),
                      call.n, call.hist)
    /\ call' = Idle
    /\ raised' = raised \cup Errors(ret')
    /\ UNCHANGED <<pts, copyOf, assigned, parked>>

\* the start points, distances (meters) and bearings of the direct solves
DirectPlaces ==
    { <<-Deg(37, 951030), Deg(144, 424870), 0, "WGS84">>,
      <<Deg(60, 0), Deg(10, 0), 250, "OSGB36">>,
      <<0, -Deg(179, 500000), 0, "WGS84">> }

Distances == { 54972, 5000000, 10000000 }

Bearings == { 0, Deg(90, 0), Deg(306, 868160) }

\* the arguments assigned before a solve: epsilon 0, 1e-3; limit 3, 200
SolveEpsilonArgs == { PyInt(0), PyFloat(1000, 0) }

SolveIterationsArgs == { PyInt(3), PyInt(200) }

InitDirect ==
    /\ \E place \in DirectPlaces :
          pts = << LatLon(place[1], place[2], place[3], place[4]) >>
    /\ copyOf = <<0>>
    /\ assigned = <<FALSE>>
    /\ call = Idle
    /\ ret = NoRet
    /\ raised = {}
    /\ parked = Idle

NextDirect ==
    \/ \E eps \in SolveEpsilonArgs : SetEpsilon(1, eps)
    \/ \E limit \in SolveIterationsArgs : SetIterations(1, limit)
    \/ \E op \in DirectOps, distance \in Distances, bearing \in Bearings :
          DirectCall(1, op, distance, bearing)
    \/ DirectIter
    \/ DirectNoConvergence
    \/ DirectReturn

SpecDirect == InitDirect /\ [][NextDirect]_vars

(***************************************************************************)
(* Vincenty's inverse method, LatLon._inverse, one loop iteration per      *)
(* step.                                                                   *)
(***************************************************************************)
\* the public methods on _inverse; all but distanceTo pass azis = True
InverseOps == {"distanceTo", "distanceTo3", "initialBearingTo", "finalBearingTo"}

azisOf(op) == op # "distanceTo"

\* the test of LatLon.ellipsoids(other): both points are on the same
\* ellipsoid
SameEllipsoid(self, other) == ellipsoid(self).name = ellipsoid(other).name

\* the frame with the reduced latitude of self taken for both points
InverseFrameAt_OwnLatitude(self, other, i, j, op) ==
    LET E == ellipsoid(self)
        r1 == _r3(self.lat, E.f)
        r2 == _r3(self.lat, E.f)
        c1 == r1[1]
        s1 == r1[2]
        c2 == r2[1]
        s2 == r2[2]
        dl == radians(Abs(other.lon - self.lon))
    IN  [pc |-> "loop", method |-> "_inverse", op |-> op, self |-> i,
         arg |-> <<j>>, azis |-> azisOf(op), E |-> E,
         c1 |-> c1, s1 |-> s1, c2 |-> c2, s2 |-> s2,
         c1c2 |-> Mul(c1, c2), s1s2 |-> Mul(s1, s2),
         c1s2 |-> Mul(c1, s2), s1c2 |-> Mul(s1, c2),
         dl |-> dl, ll |-> dl, cll |-> <<>>, sll |-> <<>>, t2 |-> <<>>,
         ss |-> <<>>, cs |-> <<>>, s |-> <<>>, sa |-> <<>>, c2a |-> <<>>,
         c2sm |-> <<>>, n |-> 0, limit |-> iterations(self).n,
         hist |-> <<dl>>]

\* the frame with the range of the loop made from the limit of other
InverseFrameAt_OtherLimit(self, other, i, j, op) ==
    LET E == ellipsoid(self)
        r1 == _r3(self.lat, E.f)
        r2 == _r3(other.lat, E.f)
        c1 == r1[1]
        s1 == r1[2]
        c2 == r2[1]
        s2 == r2[2]
        dl == radians(Abs(other.lon - self.lon))
    IN  [pc |-> "loop", method |-> "_inverse", op |-> op, self |-> i,
         arg |-> <<j>>, azis |-> azisOf(op), E |-> E,
         c1 |-> c1, s1 |-> s1, c2 |-> c2, s2 |-> s2,
         c1c2 |-> Mul(c1, c2), s1s2 |-> Mul(s1, s2),
         c1s2 |-> Mul(c1, s2), s1c2 |-> Mul(s1, c2),
         dl |-> dl, ll |-> dl, cll |-> <<>>, sll |-> <<>>, t2 |-> <<>>,
         ss |-> <<>>, cs |-> <<>>, s |-> <<>>, sa |-> <<>>, c2a |-> <<>>,
         c2sm |-> <<>>, n |-> 0, limit |-> iterations(other).n,
         hist |-> <<dl>>]

\* the frame with the signed difference of the longitudes
InverseFrameAt_Signed(self, other, i, j, op) ==
    LET E == ellipsoid(self)
        r1 == _r3(self.lat, E.f)
        r2 == _r3(other.lat, E.f)
        c1 == r1[1]
        s1 == r1[2]
        c2 == r2[1]
        s2 == r2[2]
        dl == radians(other.lon - self.lon)
    IN  [pc |-> "loop", method |-> "_inverse", op |-> op, self |-> i,
         arg |-> <<j>>, azis |-> azisOf(op), E |-> E,
         c1 |-> c1, s1 |-> s1, c2 |-> c2, s2 |-> s2,
         c1c2 |-> Mul(c1, c2), s1s2 |-> Mul(s1, s2),
         c1s2 |-> Mul(c1, s2), s1c2 |-> Mul(s1, c2),
         dl |-> dl, ll |-> dl, cll |-> <<>>, sll |-> <<>>, t2 |-> <<>>,
         ss |-> <<>>, cs |-> <<>>, s |-> <<>>, sa |-> <<>>, c2a |-> <<>>,
         c2sm |-> <<>>, n |-> 0, limit |-> iterations(self).n,
         hist |-> <<dl>>]

\* _inverse up to the loop, called on the point self (the i-th point) with
\* the point other (the j-th): the locals of the frame
InverseFrameAt(self, other, i, j, op) ==
    LET E == ellipsoid(self)
        r1 == _r3(self.lat, E.f)
        r2 == _r3(other.lat, E.f)
        c1 == r1[1]
        s1 == r1[2]
        c2 == r2[1]
        s2 == r2[2]
        dl == radians(Abs(other.lon - self.lon))
    IN  [pc |-> "loop", method |-> "_inverse", op |-> op, self |-> i,
         arg |-> <<j>>, azis |-> azisOf(op), E |-> E,
         c1 |-> c1, s1 |-> s1, c2 |-> c2, s2 |-> s2,
         c1c2 |-> Mul(c1, c2), s1s2 |-> Mul(s1, s2),
         c1s2 |-> Mul(c1, s2), s1c2 |-> Mul(s1, c2),
         dl |-> dl, ll |-> dl, cll |-> <<>>, sll |-> <<>>, t2 |-> <<>>,
         ss |-> <<>>, cs |-> <<>>, s |-> <<>>, sa |-> <<>>, c2a |-> <<>>,
         c2sm |-> <<>>, n |-> 0, limit |-> iterations(self).n,
         hist |-> <<dl>>]

\* the frame of _inverse called on the i-th point with the j-th
InverseFrame(i, j, op) == InverseFrameAt(pts[i], pts[j], i, j, op)

\* the call without the test of the ellipsoids: E = self.ellipsoid()
InverseCall_Unchecked(i, j, op) ==
    /\ call = Idle
    /\ call' = InverseFrame(i, j, op)
    /\ ret' = NoRet
    /\ raised' = raised \cup Errors(ret')
    /\ UNCHANGED <<pts, copyOf, assigned, parked>>

\* a call of distanceTo, distanceTo3, initialBearingTo or finalBearingTo
\* enters _inverse; ellipsoids(other) raises ValueError on a mismatch
InverseCall(i, j, op) ==
    /\ call = Idle
    /\ IF SameEllipsoid(pts[i], pts[j])
       THEN /\ call' = InverseFrame(i, j, op)
            /\ ret' = NoRet
       ELSE /\ call' = Idle
            /\ ret' = Outcome(op, i, <<j>>, "ValueError",
                              [text |-> "other Ellipsoid mistmatch",
                               points |-> <<j, i>>], 0, <<>>)
    /\ raised' = raised \cup Errors(ret')
    /\ UNCHANGED <<pts, copyOf, assigned, parked>>

\* a test no ss passes
Coincident_Never(ss) == ss < 0

\* the test  ss < EPS  for coincident points
Coincident(ss) == ss < EPS

\* the body with the coincidence test made on the first iteration only
InverseBody_FirstOnly(f) ==
    LET cll == cos(f.ll)
        sll == sin(f.ll)
        t2 == << Mul(f.c2, sll), f.c1s2 - Mul(f.s1c2, cll) >>
        ss == hypot(t2[1], t2[2])
        cs == f.s1s2 + Mul(f.c1c2, cll)
        s == atan2(ss, cs)
        sa == Div(Mul(f.c1c2, sll), ss)
        c2a0 == SCALE - Mul(sa, sa)
        equatorial == Abs(c2a0) < EPS
        c2sm == cs - Div(2 * f.s1s2, c2a0)
        ll == IF equatorial THEN f.dl + Mul(Mul(f.E.f, sa), s)
              ELSE f.dl + _dl(f.E.f, c2a0, sa, s, cs, ss, c2sm)
    IN  IF f.n = 0 /\ Coincident(ss)
        THEN [f EXCEPT !.cll = <<cll>>, !.sll = <<sll>>, !.t2 = t2,
                       !.ss = <<ss>>, !.n = f.n + 1, !.pc = "coincident"]
        ELSE IF ss = 0
        THEN [f EXCEPT !.cll = <<cll>>, !.sll = <<sll>>, !.t2 = t2,
                       !.ss = <<ss>>, !.cs = <<cs>>, !.s = <<s>>,
                       !.n = f.n + 1, !.pc = "zerodivision"]
        ELSE [f EXCEPT !.cll = <<cll>>, !.sll = <<sll>>, !.t2 = t2,
                       !.ss = <<ss>>, !.cs = <<cs>>, !.s = <<s>>,
                       !.sa = <<sa>>,
                       !.c2a = IF equatorial THEN <<0>> ELSE <<c2a0>>,
                       !.c2sm = IF equatorial THEN f.c2sm ELSE <<c2sm>>,
                       !.ll = ll, !.n = f.n + 1, !.hist = Append(f.hist, ll)]

\* the body of the loop of _inverse, on frame f, up to the convergence test;
\* the division by ss raises ZeroDivisionError when ss is 0.0
InverseBody(f) ==
    LET cll == cos(f.ll)
        sll == sin(f.ll)
        t2 == << Mul(f.c2, sll), f.c1s2 - Mul(f.s1c2, cll) >>
        ss == hypot(t2[1], t2[2])
        cs == f.s1s2 + Mul(f.c1c2, cll)
        s == atan2(ss, cs)
        sa == Div(Mul(f.c1c2, sll), ss)
        c2a0 == SCALE - Mul(sa, sa)
        equatorial == Abs(c2a0) < EPS
        c2sm == cs - Div(2 * f.s1s2, c2a0)
        ll == IF equatorial THEN f.dl + Mul(Mul(f.E.f, sa), s)
              ELSE f.dl + _dl(f.E.f, c2a0, sa, s, cs, ss, c2sm)
    IN  IF Coincident(ss)
        THEN [f EXCEPT !.cll = <<cll>>, !.sll = <<sll>>, !.t2 = t2,
                       !.ss = <<ss>>, !.n = f.n + 1, !.pc = "coincident"]
        ELSE IF ss = 0
        THEN [f EXCEPT !.cll = <<cll>>, !.sll = <<sll>>, !.t2 = t2,
                       !.ss = <<ss>>, !.cs = <<cs>>, !.s = <<s>>,
                       !.n = f.n + 1, !.pc = "zerodivision"]
        ELSE [f EXCEPT !.cll = <<cll>>, !.sll = <<sll>>, !.t2 = t2,
                       !.ss = <<ss>>, !.cs = <<cs>>, !.s = <<s>>,
                       !.sa = <<sa>>,
                       !.c2a = IF equatorial THEN <<0>> ELSE <<c2a0>>,
                       !.c2sm = IF equatorial THEN f.c2sm ELSE <<c2sm>>,
                       !.ll = ll, !.n = f.n + 1, !.hist = Append(f.hist, ll)]

\* an iteration whose loop test reads the limit of the point again instead
\* of the range made when the loop started
InverseIter_Reread ==
    /\ call.pc = "loop" /\ call.method = "_inverse"
    /\ ~Exhausted(call.n, iterations(pts[call.self]).n)
    /\ LET After(f) ==
               IF f.pc = "coincident"
               THEN /\ ret' = Outcome(call.op, call.self, call.arg,
                                      "VincentyError",
                                      [text |-> "coincident with",
                                       points |-> <<call.self, call.arg[1]>>],
                                      f.n, f.hist)
                    /\ call' = Idle
               ELSE IF f.pc = "zerodivision"
               THEN /\ ret' = Outcome(call.op, call.self, call.arg,
                                      "ZeroDivisionError",
                                      [text |-> "float division by zero",
                                       points |-> <<>>], f.n, f.hist)
                    /\ call' = Idle
               ELSE /\ call' = [f EXCEPT !.pc =
                                  IF Converged(f.ll, call.ll,
                                               epsilon(pts[call.self]))
                                  THEN "break" ELSE "loop"]
                    /\ UNCHANGED ret
       IN  After(InverseBody(call))
    /\ raised' = raised \cup Errors(ret')
    /\ UNCHANGED <<pts, copyOf, assigned, parked>>

\* one iteration of the for loop of _inverse: it raises VincentyError for
\* coincident points, breaks when converged, or goes on
InverseIter ==
    /\ call.pc = "loop" /\ call.method = "_inverse"
    /\ ~Exhausted(call.n, call.limit)
    /\ LET After(f) ==
               IF f.pc = "coincident"
               THEN /\ ret' = Outcome(call.op, call.self, call.arg,
                                      "VincentyError",
                                      [text |-> "coincident with",
                                       points |-> <<call.self, call.arg[1]>>],
                                      f.n, f.hist)
                    /\ call' = Idle
               ELSE IF f.pc = "zerodivision"
               THEN /\ ret' = Outcome(call.op, call.self, call.arg,
                                      "ZeroDivisionError",
                                      [text |-> "float division by zero",
                                       points |-> <<>>], f.n, f.hist)
                    /\ call' = Idle
               ELSE /\ call' = [f EXCEPT !.pc =
                                  IF Converged(f.ll, call.ll,
                                               epsilon(pts[call.self]))
                                  THEN "break" ELSE "loop"]
                    /\ UNCHANGED ret
       IN  After(InverseBody(call))
    /\ raised' = raised \cup Errors(ret')
    /\ UNCHANGED <<pts, copyOf, assigned, parked>>

\* an exhausted loop that goes on under a doubled limit instead of raising
InverseNoConvergence_Loosened ==
    /\ call.pc = "loop" /\ call.method = "_inverse"
    /\ Exhausted(call.n, call.limit)
    /\ call' = [call EXCEPT !.limit = 2 * call.limit]
    /\ UNCHANGED <<pts, copyOf, assigned, ret, raised, parked>>

\* the no-convergence failure raised as an error kind of its own
InverseNoConvergence_OwnKind ==
    /\ call.pc = "loop" /\ call.method = "_inverse"
    /\ Exhausted(call.n, call.limit)
    /\ ret' = Outcome(call.op, call.self, call.arg, "NoConvergenceError",
                      [text |-> "no convergence",
                       points |-> <<call.self, call.arg[1]>>],
                      call.n, call.hist)
    /\ call' = Idle
    /\ raised' = raised \cup Errors(ret')
    /\ UNCHANGED <<pts, copyOf, assigned, parked>>

\* the else clause of the for loop: raise VincentyError('no convergence ...')
InverseNoConvergence ==
    /\ call.pc = "loop" /\ call.method = "_inverse"
    /\ Exhausted(call.n, call.limit)
    /\ ret' = Outcome(call.op, call.self, call.arg, "VincentyError",
                      [text |-> "no convergence",
                       points |-> <<call.self, call.arg[1]>>],
                      call.n, call.hist)
    /\ call' = Idle
    /\ raised' = raised \cup Errors(ret')
    /\ UNCHANGED <<pts, copyOf, assigned, parked>>

\* the value with the distance scaled by the major instead of the minor
\* semi-axis
InverseValue_MajorAxis(f) ==
    LET c2a == f.c2a[1]
        AB == _p2(c2a, f.E.e22)
        s == IF c2a # 0
             THEN Mul(AB[1], f.s[1] - _ds(AB[2], f.cs[1], f.ss[1], f.c2sm[1]))
             ELSE f.s[1]
        d == Mul(f.E.a, s)
        fwd == degrees360(atan2(f.t2[1], f.t2[2]))
        rev == degrees360(atan2(Mul(f.c1, f.sll[1]),
                                -f.s1c2 + Mul(f.c1s2, f.cll[1])))
    IN  IF f.op = "distanceTo" THEN <<d>>
        ELSE IF f.op = "distanceTo3" THEN <<d, fwd, rev>>
        ELSE IF f.op = "initialBearingTo" THEN <<fwd>>
        ELSE <<rev>>

\* the value with sigma never refined
InverseValue_Unrefined(f) ==
    LET d == Mul(f.E.b, f.s[1])
        fwd == degrees360(atan2(f.t2[1], f.t2[2]))
        rev == degrees360(atan2(Mul(f.c1, f.sll[1]),
                                -f.s1c2 + Mul(f.c1s2, f.cll[1])))
    IN  IF f.op = "distanceTo" THEN <<d>>
        ELSE IF f.op = "distanceTo3" THEN <<d, fwd, rev>>
        ELSE IF f.op = "initialBearingTo" THEN <<fwd>>
        ELSE <<rev>>

\* the value with the two bearings taken from each other's index
InverseValue_Swapped(f) ==
    LET c2a == f.c2a[1]
        AB == _p2(c2a, f.E.e22)
        s == IF c2a # 0
             THEN Mul(AB[1], f.s[1] - _ds(AB[2], f.cs[1], f.ss[1], f.c2sm[1]))
             ELSE f.s[1]
        d == Mul(f.E.b, s)
        fwd == degrees360(atan2(f.t2[1], f.t2[2]))
        rev == degrees360(atan2(Mul(f.c1, f.sll[1]),
                                -f.s1c2 + Mul(f.c1s2, f.cll[1])))
    IN  IF f.op = "distanceTo" THEN <<d>>
        ELSE IF f.op = "distanceTo3" THEN <<d, fwd, rev>>
        ELSE IF f.op = "initialBearingTo" THEN <<rev>>
        ELSE <<fwd>>

\* _inverse after the loop: the distance in meters and, with azis, the
\* initial and the final bearing, as <<d, f, r>>
InverseValue(f) ==
    LET c2a == f.c2a[1]
        AB == _p2(c2a, f.E.e22)
        s == IF c2a # 0
             THEN Mul(AB[1], f.s[1] - _ds(AB[2], f.cs[1], f.ss[1], f.c2sm[1]))
             ELSE f.s[1]
        d == Mul(f.E.b, s)
        fwd == degrees360(atan2(f.t2[1], f.t2[2]))
        rev == degrees360(atan2(Mul(f.c1, f.sll[1]),
                                -f.s1c2 + Mul(f.c1s2, f.cll[1])))
    IN  IF f.op = "distanceTo" THEN <<d>>
        ELSE IF f.op = "distanceTo3" THEN <<d, fwd, rev>>
        ELSE IF f.op = "initialBearingTo" THEN <<fwd>>
        ELSE <<rev>>

\* _inverse returns after a break; c2sm is read only if c2a is not zero
InverseReturn ==
    /\ call.pc = "break" /\ call.method = "_inverse"
    /\ ret' = IF call.c2a[1] # 0 /\ call.c2sm = <<>>
              THEN Outcome(call.op, call.self, call.arg, "UnboundLocalError",
                           [text |-> "c2sm", points |-> <<>>], call.n, call.hist)
              ELSE Outcome(call.op, call.self, call.arg, "none",
                           InverseValue(call), call.n, call.hist)
    /\ call' = Idle
    /\ raised' = raised \cup Errors(ret')
    /\ UNCHANGED <<pts, copyOf, assigned, parked>>

\* the pairs of points of the inverse solves
InversePairs ==
    { << <<Deg(41, 490080), -Deg(71, 312796), 0, "WGS84">>,
         <<Deg(41, 499498), -Deg(81, 695391), 0, "WGS84">> >>,
      << <<Deg(41, 490080), -Deg(71, 312796), 0, "WGS84">>,
         <<Deg(41, 490080), -Deg(71, 312796), 35, "WGS84">> >>,
      << <<Deg(50, 66320), -Deg(5, 714750), 0, "WGS84">>,
         <<Deg(58, 644020), -Deg(3, 70090), 0, "OSGB36">> >>,
      << <<Deg(50, 66320), -Deg(5, 714750), 0, "WGS84">>,
         <<Deg(58, 644020), -Deg(3, 70090), 0, "NAD83">> >>,
      << <<0, 0, 0, "WGS84">>, <<0, Deg(1, 0), 0, "WGS84">> >>,
      << <<0, 0, 0, "WGS84">>, <<Deg(1, 0), Deg(179, 0), 0, "WGS84">> >>,
      << <<0, 0, 0, "OSGB36">>, <<Deg(0, 500000), Deg(179, 700000), 0, "OSGB36">> >> }

InitInverse ==
    /\ \E pair \in InversePairs :
          pts = << LatLon(pair[1][1], pair[1][2], pair[1][3], pair[1][4]),
                   LatLon(pair[2][1], pair[2][2], pair[2][3], pair[2][4]) >>
    /\ copyOf = <<0, 0>>
    /\ assigned = <<FALSE, FALSE>>
    /\ call = Idle
    /\ ret = NoRet
    /\ raised = {}
    /\ parked = Idle

NextInverse ==
    \/ \E eps \in SolveEpsilonArgs : SetEpsilon(1, eps)
    \/ \E limit \in SolveIterationsArgs : SetIterations(1, limit)
    \/ \E i \in 1..2, j \in 1..2, op \in InverseOps : InverseCall(i, j, op)
    \/ InverseIter
    \/ InverseNoConvergence
    \/ InverseReturn

SpecInverse == InitInverse /\ [][NextInverse]_vars

(***************************************************************************)
(* The solvers as functions: a whole call of _direct or _inverse from its  *)
(* frame to its outcome, iterating the same loop bodies.                   *)
(***************************************************************************)
\* the loop of _direct and what follows it, from frame f of a call on self
RECURSIVE DirectRun(_, _)
DirectRun(f, self) ==
    IF f.pc = "break"
    THEN Outcome(f.op, f.self, f.arg, "none", DirectValueAt(f, self), f.n, f.hist)
    ELSE IF Exhausted(f.n, f.limit)
    THEN Outcome(f.op, f.self, f.arg, "VincentyError",
                 [text |-> "no convergence", points |-> <<f.self>>],
                 f.n, f.hist)
    ELSE DirectRun(DirectBody(f, epsilon(self)), self)

\* self._direct(distance, bearing, llr) for the method op, self being the
\* i-th point
_direct(self, i, op, distance, bearing) ==
    DirectRun(DirectFrameAt(self, i, op, distance, bearing), self)

\* the loop of _inverse and what follows it, from frame f of a call on self
RECURSIVE InverseRun(_, _)
InverseRun(f, self) ==
    IF f.pc = "break"
    THEN IF f.c2a[1] # 0 /\ f.c2sm = <<>>
         THEN Outcome(f.op, f.self, f.arg, "UnboundLocalError",
                      [text |-> "c2sm", points |-> <<>>], f.n, f.hist)
         ELSE Outcome(f.op, f.self, f.arg, "none", InverseValue(f), f.n, f.hist)
    ELSE IF Exhausted(f.n, f.limit)
    THEN Outcome(f.op, f.self, f.arg, "VincentyError",
                 [text |-> "no convergence",
                  points |-> <<f.self, f.arg[1]>>], f.n, f.hist)
    ELSE LET g == InverseBody(f)
         IN  IF g.pc = "coincident"
             THEN Outcome(f.op, f.self, f.arg, "VincentyError",
                          [text |-> "coincident with",
                           points |-> <<f.self, f.arg[1]>>], g.n, g.hist)
             ELSE IF g.pc = "zerodivision"
             THEN Outcome(f.op, f.self, f.arg, "ZeroDivisionError",
                          [text |-> "float division by zero",
                           points |-> <<>>], g.n, g.hist)
             ELSE InverseRun([g EXCEPT !.pc =
                                IF Converged(g.ll, f.ll, epsilon(self))
                                THEN "break" ELSE "loop"], self)

\* self._inverse(other, azis) for the method op, self and other being the
\* i-th and the j-th point
_inverse(self, other, i, j, op) ==
    IF SameEllipsoid(self, other)
    THEN InverseRun(InverseFrameAt(self, other, i, j, op), self)
    ELSE Outcome(op, i, <<j>>, "ValueError",
                 [text |-> "other Ellipsoid mistmatch", points |-> <<j, i>>],
                 0, <<>>)

(***************************************************************************)
(* Direct and inverse solves on the same two points.                       *)
(***************************************************************************)
\* Flinders Peak and Buninyong; two nearly antipodal points
SolvePairs ==
    { << <<-Deg(37, 951030), Deg(144, 424870), 0, "WGS84">>,
         <<-Deg(37, 652800), Deg(143, 926500), 0, "WGS84">> >>,
      << <<0, 0, 20, "OSGB36">>, <<Deg(0, 500000), Deg(179, 700000), 0, "OSGB36">> >>,
      << <<Deg(50, 66320), -Deg(5, 714750), 0, "WGS84">>,
         <<Deg(58, 644020), -Deg(3, 70090), 0, "OSGB36">> >> }

SolveDistances == { 54972, 10000000 }

SolveBearings == { 0, Deg(90, 0), Deg(306, 868160) }

\* the limits assigned on the first point: 3, 199
PairIterationsArgs == { PyInt(3), PyInt(199) }

InitSolve ==
    /\ \E pair \in SolvePairs :
          pts = << LatLon(pair[1][1], pair[1][2], pair[1][3], pair[1][4]),
                   LatLon(pair[2][1], pair[2][2], pair[2][3], pair[2][4]) >>
    /\ copyOf = <<0, 0>>
    /\ assigned = <<FALSE, FALSE>>
    /\ call = Idle
    /\ ret = NoRet
    /\ raised = {}
    /\ parked = Idle

\* a step of a running solver
SolveStep ==
    \/ DirectIter
    \/ DirectNoConvergence
    \/ DirectReturn
    \/ InverseIter
    \/ InverseNoConvergence
    \/ InverseReturn

NextSolve ==
    \/ \E limit \in PairIterationsArgs : SetIterations(1, limit)
    \/ \E op \in DirectOps, distance \in SolveDistances, bearing \in SolveBearings :
          DirectCall(1, op, distance, bearing)
    \/ \E i \in 1..2, j \in 1..2, op \in InverseOps : InverseCall(i, j, op)
    \/ SolveStep

SpecSolve == InitSolve /\ [][NextSolve]_vars

(***************************************************************************)
(* Two callers at once: each solve runs in a frame of its own; between two *)
(* iterations the running call may be suspended and the other resumed.     *)
(***************************************************************************)
\* the points of the two callers: the first two for one, the last two for
\* the other
ConcurrentPlaces ==
    << <<0, 0, 0, "WGS84">>,
       <<Deg(1, 0), Deg(179, 0), 0, "WGS84">>,
       <<-Deg(37, 951030), Deg(144, 424870), 0, "WGS84">>,
       <<-Deg(37, 652800), Deg(143, 926500), 0, "WGS84">> >>

\* the receivers and the pairs of the solves
ConcurrentStarts == { 1, 3 }

ConcurrentPairs == { <<1, 2>>, <<3, 4>> }

\* the points the call of frame f reads
PointsOf(f) ==
    IF f = Idle THEN {}
    ELSE IF f.method = "_inverse" THEN {f.self, f.arg[1]}
    ELSE {f.self}

\* the suspended call reads none of the points
Independent(points) == PointsOf(parked) \cap points = {}

\* a switch that hands the loop counter of the suspended call to the resumed
\* one, as a counter kept outside the frames would
Switch_Shared ==
    /\ call # Idle \/ parked # Idle
    /\ call' = IF call # Idle /\ parked # Idle
               THEN [parked EXCEPT !.n = call.n] ELSE parked
    /\ parked' = call
    /\ UNCHANGED <<pts, copyOf, assigned, ret, raised>>

\* the running call is suspended between two iterations and the other call
\* resumed; each keeps its own locals
Switch ==
    /\ call # Idle \/ parked # Idle
    /\ call' = parked
    /\ parked' = call
    /\ UNCHANGED <<pts, copyOf, assigned, ret, raised>>

InitConcurrent ==
    /\ pts = [k \in 1..Len(ConcurrentPlaces) |->
                LatLon(ConcurrentPlaces[k][1], ConcurrentPlaces[k][2],
                       ConcurrentPlaces[k][3], ConcurrentPlaces[k][4])]
    /\ copyOf = [k \in 1..Len(ConcurrentPlaces) |-> 0]
    /\ assigned = [k \in 1..Len(ConcurrentPlaces) |-> FALSE]
    /\ call = Idle
    /\ ret = NoRet
    /\ raised = {}
    /\ parked = Idle

\* setters are called only while no solve runs or is suspended; a solve
\* starts only on points the suspended call does not read
NextConcurrent ==
    \/ \E i \in ConcurrentStarts :
          parked = Idle /\ SetIterations(i, PyInt(3))
    \/ \E i \in ConcurrentStarts :
          Independent({i}) /\ DirectCall(i, "destination2", 10000000, 0)
    \/ \E pair \in ConcurrentPairs :
          /\ Independent({pair[1], pair[2]})
          /\ InverseCall(pair[1], pair[2], "distanceTo3")
    \/ SolveStep
    \/ Switch

SpecConcurrent == InitConcurrent /\ [][NextConcurrent]_vars

(***************************************************************************)
(* A setter called on a point while a solve on that point is suspended     *)
(* between two iterations: the solve made its range(self._iterations) when *)
(* its loop started and reads self._epsilon at each convergence test.      *)
(***************************************************************************)
\* Flinders Peak and a point near its antipode: the inverse solve takes five
\* iterations, the direct solve below four
SharedPair ==
    << <<-Deg(37, 951030), Deg(144, 424870), 0, "WGS84">>,
       <<Deg(37, 0), -Deg(34, 0), 0, "WGS84">> >>

\* the limits assigned on the first point: 3, 50
SharedIterationsArgs == { PyInt(3), PyInt(50) }

\* the thresholds assigned on the first point: 1e-3, 1e-12
SharedEpsilonArgs == { PyFloat(1000, 0), PyFloat(0, 1) }

\* the distance and the bearing of the direct solve
SharedDistance == 10000000

SharedBearing == 0

InitShared ==
    /\ pts = << LatLon(SharedPair[1][1], SharedPair[1][2],
                       SharedPair[1][3], SharedPair[1][4]),
                LatLon(SharedPair[2][1], SharedPair[2][2],
                       SharedPair[2][3], SharedPair[2][4]) >>
    /\ copyOf = <<0, 0>>
    /\ assigned = <<FALSE, FALSE>>
    /\ call = Idle
    /\ ret = NoRet
    /\ raised = {}
    /\ parked = Idle

\* one solve at a time; the setters run while no solve runs, a suspended
\* solve on the same point included
NextShared ==
    \/ \E limit \in SharedIterationsArgs : SetIterations(1, limit)
    \/ \E eps \in SharedEpsilonArgs : SetEpsilon(1, eps)
    \/ /\ parked = Idle
       /\ DirectCall(1, "destination2", SharedDistance, SharedBearing)
    \/ /\ parked = Idle
       /\ InverseCall(1, 2, "distanceTo3")
    \/ SolveStep
    \/ Switch

SpecShared == InitShared /\ [][NextShared]_vars

(***************************************************************************)
(* The cases of the tests: the reference pairs and start point, a pair of  *)
(* points at the same place, a pair that needs nine iterations, a pair on  *)
(* the equator and a pair on the equator whose lambda runs into pi, where  *)
(* sin(sigma) vanishes, on the third iteration.                            *)
(***************************************************************************)
CasePairs ==
    { << <<Deg(41, 490080), -Deg(71, 312796), 0, "WGS84">>,
         <<Deg(41, 499498), -Deg(81, 695391), 0, "WGS84">> >>,
      << <<Deg(50, 66320), -Deg(5, 714750), 0, "WGS84">>,
         <<Deg(58, 644020), -Deg(3, 70090), 0, "WGS84">> >>,
      << <<-Deg(37, 951030), Deg(144, 424870), 0, "WGS84">>,
         <<-Deg(37, 951030), Deg(144, 424870), 35, "WGS84">> >>,
      << <<0, 0, 0, "WGS84">>, <<Deg(1, 0), Deg(179, 0), 0, "WGS84">> >>,
      << <<0, 0, 0, "WGS84">>, <<0, Deg(1, 0), 0, "WGS84">> >>,
      << <<0, 0, 0, "WGS84">>, <<0, Deg(179, 396540), 0, "WGS84">> >> }

\* distances in meters (54972.271 to the meter) and bearings of the direct
\* solves
CaseDistances == { 54972, 10000000 }

CaseBearings == { 0, Deg(306, 868160) }

\* the limit assigned on the first point: 3
CaseIterationsArgs == { PyInt(3) }

InitCases ==
    /\ \E pair \in CasePairs :
          pts = << LatLon(pair[1][1], pair[1][2], pair[1][3], pair[1][4]),
                   LatLon(pair[2][1], pair[2][2], pair[2][3], pair[2][4]) >>
    /\ copyOf = <<0, 0>>
    /\ assigned = <<FALSE, FALSE>>
    /\ call = Idle
    /\ ret = NoRet
    /\ raised = {}
    /\ parked = Idle

NextCases ==
    \/ \E limit \in CaseIterationsArgs : SetIterations(1, limit)
    \/ \E op \in DirectOps, distance \in CaseDistances, bearing \in CaseBearings :
          DirectCall(1, op, distance, bearing)
    \/ \E i \in 1..2, j \in 1..2, op \in InverseOps : InverseCall(i, j, op)
    \/ SolveStep

SpecCases == InitCases /\ [][NextCases]_vars

(***************************************************************************)
(* Comparisons of Python numbers by value, used to state the properties.   *)
(***************************************************************************)
NumLt(x, y) == FloatLt(float(x), float(y))

NumLe(x, y) == NumLt(x, y) \/ NumEq(x, y)

IsSetter(op) == op \in {"epsilon.setter", "iterations.setter"}

\* the value lies outside the open range of the parameter the setter sets
OutOfRange(op, v) ==
    IF op = "epsilon.setter" THEN NumLe(v, PyInt(0)) \/ NumLe(PyInt(1), v)
    ELSE NumLe(v, PyInt(2)) \/ NumLe(PyInt(200), v)

\* the value lies strictly inside the open range of the parameter
InRange(op, v) ==
    IF op = "epsilon.setter" THEN NumLt(PyInt(0), v) /\ NumLt(v, PyInt(1))
    ELSE NumLt(PyInt(2), v) /\ NumLt(v, PyInt(200))

\* the parameter a setter sets, read back through its getter
ReadBack(op, p) == IF op = "epsilon.setter" THEN epsilon(p) ELSE iterations(p)

\* C1: whatever was assigned or copied, every point's epsilon lies strictly
\* between 0 and 1 and every point's iteration limit strictly between 2 and
\* 200.
C1_ConfigInRange ==
    \A i \in 1..Len(pts) :
        /\ NumLt(PyInt(0), epsilon(pts[i])) /\ NumLt(epsilon(pts[i]), PyInt(1))
        /\ NumLt(PyInt(2), iterations(pts[i]))
        /\ NumLt(iterations(pts[i]), PyInt(200))

\* an out-of-range assignment has just been made on a copy whose epsilon and
\* iteration limit are both no longer the defaults
C1_Witness ==
    /\ IsSetter(ret.op) /\ OutOfRange(ret.op, ret.arg)
    /\ copyOf[ret.self] # 0
    /\ epsilon(pts[ret.self]) # _epsilon
    /\ iterations(pts[ret.self]) # _iterations

C3_AsClaimed ==
    (IsSetter(ret.op) /\ InRange(ret.op, ret.arg))
        => NumEq(ReadBack(ret.op, pts[ret.self]), ret.arg)

\* the whole part of a non-negative Python number
Whole(v) == IF v.t = "int" THEN v.n ELSE v.u \div SCALE

\* C3 amended: an epsilon strictly between 0 and 1 is accepted and read back
\* as assigned; a limit v with 3 <= v < 200 is accepted and read back as its
\* whole part, which is v when v is an integer.
C3_InRangeAccepted ==
    /\ (ret.op = "epsilon.setter" /\ InRange(ret.op, ret.arg))
          => NumEq(epsilon(pts[ret.self]), ret.arg)
    /\ (ret.op = "iterations.setter" /\ NumLe(PyInt(3), ret.arg)
          /\ NumLt(ret.arg, PyInt(200)))
          => NumEq(iterations(pts[ret.self]), PyInt(Whole(ret.arg)))

\* the limit 199.999999999999 has just been assigned and reads back as 199
C3_Witness ==
    /\ ret.op = "iterations.setter"
    /\ ret.arg = PyFloat(199 * SCALE + 999999, 999999)
    /\ iterations(pts[ret.self]) = PyInt(199)

\* C4: a constructed point on which no assignment has been made reads
\* epsilon 1e-12 and iteration limit 50.
C4_Defaults ==
    \A i \in 1..Len(pts) :
        (copyOf[i] = 0 /\ ~assigned[i])
            => /\ epsilon(pts[i]) = PyFloat(0, 1)
               /\ iterations(pts[i]) = PyInt(50)

\* a point has just been constructed while an earlier point carries other
\* values than the defaults
C4_Witness ==
    /\ ret.op = "LatLon" /\ ret.val > 1 /\ ~assigned[ret.val]
    /\ epsilon(pts[1]) # PyFloat(0, 1)
    /\ iterations(pts[1]) # PyInt(50)

\* C5: copy() returns a point with the original's epsilon and iteration
\* limit and leaves the original as it was; afterwards an assignment on the
\* copy leaves the original unchanged, and one on the original leaves the
\* copy unchanged.
C5_CopyIndependent ==
    [][/\ (ret'.op = "copy" /\ Len(pts') = Len(pts) + 1)
            => /\ epsilon(pts'[ret'.val]) = epsilon(pts[ret'.self])
               /\ iterations(pts'[ret'.val]) = iterations(pts[ret'.self])
               /\ \A j \in 1..Len(pts) : pts'[j] = pts[j]
       /\ IsSetter(ret'.op)
            => \A j \in 1..Len(pts) :
                 (j # ret'.self /\ (copyOf[j] = ret'.self \/ copyOf[ret'.self] = j))
                    => pts'[j] = pts[j]]_vars

\* an accepted assignment has just been made on a copy, whose epsilon and
\* limit now both differ from those of its original
C5_Witness ==
    /\ IsSetter(ret.op) /\ InRange(ret.op, ret.arg)
    /\ copyOf[ret.self] # 0
    /\ epsilon(pts[ret.self]) # epsilon(pts[copyOf[ret.self]])
    /\ iterations(pts[ret.self]) # iterations(pts[copyOf[ret.self]])
    /\ epsilon(pts[copyOf[ret.self]]) # _epsilon

(***************************************************************************)
(* Properties of the solvers, stated on the outcome of the latest call.    *)
(***************************************************************************)
\* the latest completed call was a direct (inverse) solve
IsDirect(r) == r.op \in DirectOps

IsInverse(r) == r.op \in InverseOps

Failed(r, exc, text) == r.exc = exc /\ r.val.text = text

\* the receiver and the argument of the inverse solve r
SelfOf(r) == pts[r.self]

OtherOf(r) == pts[r.arg[1]]

\* the k-th iteration of the solve r changed the iterated variable by less
\* than the receiver's epsilon
SmallChange(r, k) ==
    LtEps(Abs(r.hist[k + 1] - r.hist[k]), epsilon(SelfOf(r)))

\* the solve r ran n iterations, returned exactly when one of them, none
\* beyond the limit, made a small change, and otherwise raised no
\* convergence after as many iterations as the limit
StoppedAsSpecified(r) ==
    LET limit == iterations(SelfOf(r)).n
    IN  /\ Len(r.hist) = r.n + 1
        /\ r.n \in 1..limit
        /\ (r.exc = "none") <=> (\E k \in 1..limit : k <= r.n /\ SmallChange(r, k))
        /\ r.exc = "none" => /\ SmallChange(r, r.n)
                             /\ \A k \in 1..(r.n - 1) : ~SmallChange(r, k)
        /\ r.exc # "none" => /\ Failed(r, "VincentyError", "no convergence")
                             /\ r.n = limit

\* C6: an inverse solve of a point against itself, or against a point of the
\* same latitude, longitude and datum, raises the coincident-points error,
\* whatever the epsilon and the limit, and returns no distance.
C6_SelfInverseCoincident ==
    (/\ IsInverse(ret)
     /\ SelfOf(ret).lat = OtherOf(ret).lat
     /\ SelfOf(ret).lon = OtherOf(ret).lon
     /\ SelfOf(ret).datum = OtherOf(ret).datum)
       => Failed(ret, "VincentyError", "coincident with")

\* a point with a changed epsilon and limit was solved against another
\* point at the same place, and the call raised the coincident-points error
C6_Witness ==
    /\ IsInverse(ret) /\ ret.self = 1 /\ ret.arg = <<2>>
    /\ SelfOf(ret).lat = OtherOf(ret).lat /\ SelfOf(ret).lon = OtherOf(ret).lon
    /\ SelfOf(ret).height # OtherOf(ret).height
    /\ epsilon(SelfOf(ret)) # _epsilon /\ iterations(SelfOf(ret)) # _iterations
    /\ Failed(ret, "VincentyError", "coincident with")

\* C7: an inverse solve between points on different ellipsoids raises the
\* ellipsoid-mismatch error before the loop is entered: no iteration runs, no
\* frame of locals exists for such a pair, and no value is returned.
C7_MismatchBeforeLoop ==
    /\ (IsInverse(ret) /\ ellipsoid(SelfOf(ret)) # ellipsoid(OtherOf(ret)))
          => /\ Failed(ret, "ValueError", "other Ellipsoid mistmatch")
             /\ ret.n = 0 /\ ret.hist = <<>>
    /\ (call # Idle /\ call.method = "_inverse")
          => ellipsoid(pts[call.self]) = ellipsoid(pts[call.arg[1]])

\* a WGS84 point with a changed epsilon and limit was solved against a NAD83
\* (GRS80) point and the call raised the mismatch error
C7_Witness ==
    /\ IsInverse(ret) /\ ret.self = 1 /\ ret.arg = <<2>>
    /\ SelfOf(ret).datum = "WGS84" /\ OtherOf(ret).datum = "NAD83"
    /\ epsilon(SelfOf(ret)) # _epsilon /\ iterations(SelfOf(ret)) # _iterations
    /\ Failed(ret, "ValueError", "other Ellipsoid mistmatch")

\* C8 as claimed: mismatched ellipsoid, coincident points and no convergence
\* are raised as three distinct kinds of error, so any two errors raised
\* for different failures differ in kind.
C8_AsClaimed ==
    \A e1 \in raised : \A e2 \in raised :
        e1.text # e2.text => e1.exc # e2.exc

\* C8: every failure of an inverse solve is surfaced as an error, under two
\* kinds: ValueError for mismatched ellipsoids, and the one kind VincentyError
\* for both coincident points and no convergence, which differ only in the
\* message.
C8_TwoErrorKinds ==
    /\ raised \subseteq
          { [exc |-> "ValueError", text |-> "other Ellipsoid mistmatch"],
            [exc |-> "VincentyError", text |-> "coincident with"],
            [exc |-> "VincentyError", text |-> "no convergence"] }
    /\ (IsInverse(ret) /\ ret.exc # "none") => Errors(ret) \subseteq raised

\* solves have failed for coincident points and for no convergence, both
\* with a VincentyError, the latest for no convergence
C8_Witness ==
    /\ IsInverse(ret) /\ Failed(ret, "VincentyError", "no convergence")
    /\ [exc |-> "VincentyError", text |-> "coincident with"] \in raised

\* C9: a direct solve returns a result exactly if some iteration k from 1 to
\* the receiver's limit changes sigma by less than the receiver's epsilon in
\* absolute value, k equal to the limit included; otherwise it raises no
\* convergence after exactly limit iterations.
C9_DirectStops == IsDirect(ret) => StoppedAsSpecified(ret)

\* a direct solve returned having converged on the last iteration its limit
\* allows, after larger changes in the iterations before
C9_Witness ==
    /\ IsDirect(ret) /\ ret.exc = "none"
    /\ ret.n = iterations(SelfOf(ret)).n
    /\ ret.n > 1

\* C10: an inverse solve in which no iteration finds the points coincident
\* returns a result exactly if some iteration k from 1 to the receiver's limit
\* changes lambda by less than the receiver's epsilon in absolute value, k
\* equal to the limit included; otherwise it raises no convergence after
\* exactly limit iterations.
C10_InverseStops ==
    (/\ IsInverse(ret)
     /\ ellipsoid(SelfOf(ret)) = ellipsoid(OtherOf(ret))
     /\ ~Failed(ret, "VincentyError", "coincident with"))
       => StoppedAsSpecified(ret)

\* an inverse solve returned having converged on the last iteration its
\* limit allows
C10_Witness ==
    /\ IsInverse(ret) /\ ret.exc = "none"
    /\ ret.n = iterations(SelfOf(ret)).n
    /\ ret.n > 1

\* a call of a solver is running
Running == call # Idle

\* C11: a solve that has been entered is in its loop with no more iterations
\* made than the receiver's iteration limit, which is at most 199, or has
\* left the loop; and every step of a running solve ends the call, with a
\* result or an error after at most limit iterations, or completes one more
\* iteration: so a solve ends within limit iterations.
C11_Terminates ==
    [][/\ Running' =>
            /\ call'.pc \in {"loop", "break"}
            /\ call'.n <= call'.limit
            /\ call'.limit = iterations(pts'[call'.self]).n
            /\ call'.limit <= 199
       /\ Running =>
            \/ call' = Idle /\ ret'.n <= call.limit
            \/ call' # Idle /\ call.pc = "loop" /\ call'.n = call.n + 1]_vars

\* a solve ended after 199 iterations, the most the setter admits
C11_Witness ==
    /\ (IsDirect(ret) \/ IsInverse(ret))
    /\ ret.n = 199
    /\ iterations(SelfOf(ret)) = PyInt(199)

\* the tolerance of a distance, in meters: the angle eps, and two steps of
\* the fixed-point angle, along the semi-minor axis of E
Tolerance(E, eps) == Mul(E.b, eps.u + 2) + 1

\* the larger epsilon of two points
LooserEpsilon(p, q) ==
    IF FloatLt(epsilon(p), epsilon(q)) THEN epsilon(q) ELSE epsilon(p)

\* the outcome of the inverse solve r with receiver and argument exchanged
Reversed(r) == _inverse(OtherOf(r), SelfOf(r), r.arg[1], r.self, r.op)

\* two outcomes of distanceTo agree: both are distances within the tolerance,
\* or both are the same failure
SameDistance(r, q, tolerance) ==
    /\ r.exc = q.exc
    /\ r.exc = "none" => Abs(r.val[1] - q.val[1]) <= tolerance
    /\ r.exc # "none" => r.val.text = q.val.text

\* C12 as claimed: for every two points on the same ellipsoid, distanceTo
\* gives the same distance within the tolerance, or fails alike, in both
\* directions.
C12_AsClaimed ==
    (ret.op = "distanceTo" /\ SameEllipsoid(SelfOf(ret), OtherOf(ret)))
       => SameDistance(ret, Reversed(ret),
                       Tolerance(ellipsoid(SelfOf(ret)),
                                 LooserEpsilon(SelfOf(ret), OtherOf(ret))))

\* C12: for two points on the same ellipsoid that carry the same epsilon and
\* the same iteration limit, distanceTo gives the same distance within the
\* tolerance, or fails alike, in both directions.
C12_Symmetric ==
    (/\ ret.op = "distanceTo"
     /\ SameEllipsoid(SelfOf(ret), OtherOf(ret))
     /\ epsilon(SelfOf(ret)) = epsilon(OtherOf(ret))
     /\ iterations(SelfOf(ret)) = iterations(OtherOf(ret)))
       => SameDistance(ret, Reversed(ret),
                       Tolerance(ellipsoid(SelfOf(ret)),
                                 LooserEpsilon(SelfOf(ret), OtherOf(ret))))

\* distanceTo returned a distance between two points at different latitudes
\* with the same config, after several iterations
C12_Witness ==
    /\ ret.op = "distanceTo" /\ ret.exc = "none" /\ ret.n > 3
    /\ SelfOf(ret).lat # OtherOf(ret).lat
    /\ epsilon(SelfOf(ret)) = epsilon(OtherOf(ret))
    /\ iterations(SelfOf(ret)) = iterations(OtherOf(ret))

\* the difference of two bearings around the circle, in degrees
BearingDiff(a, b) ==
    LET d == (a - b) % (360 * SCALE)
    IN  Min(d, 360 * SCALE - d)

\* the tolerance of a round trip for the distance, in meters, and for the
\* bearing, in degrees: proportional to eps, and ten steps of the
\* fixed-point angle
RoundTripMeters(E, eps) == Mul(E.b, 2 * eps.u + 10) + 1

RoundTripDegrees(eps) == degrees(4 * eps.u + 200)

\* the inverse solve from the start of the direct solve r to the destination
\* it returned
BackFrom(r) == _inverse(SelfOf(r), r.val[1], r.self, 0, "distanceTo3")

\* C13 as claimed: after p2 = destination(p, d, b) the inverse solve from p
\* to p2 returns the distance d and the initial bearing b within the
\* tolerance, whatever the bearing (destinations within one degree of a pole,
\* beyond the range of the fixed-point tangent, are left out).
C13_AsClaimed ==
    (/\ ret.op = "destination2" /\ ret.exc = "none"
     /\ ret.arg[1] > 0
     /\ Abs(ret.val[1].lat) <= 89 * SCALE)
       => LET back == BackFrom(ret)
              eps == epsilon(SelfOf(ret))
          IN  /\ back.exc = "none"
              /\ Abs(back.val[1] - ret.arg[1])
                    <= RoundTripMeters(ellipsoid(SelfOf(ret)), eps)
              /\ BearingDiff(back.val[2], ret.arg[2]) <= RoundTripDegrees(eps)

\* the bearings and the destination points among the values of the solve r
BearingsOf(r) ==
    IF r.op \in {"finalBearingOn", "initialBearingTo", "finalBearingTo"}
    THEN {r.val[1]}
    ELSE IF r.op = "destination2" THEN {r.val[2]}
    ELSE IF r.op = "distanceTo3" THEN {r.val[2], r.val[3]}
    ELSE {}

DestinationsOf(r) ==
    IF r.op \in {"destination", "destination2"} THEN {r.val[1]} ELSE {}

AtHeight(p, h) == [p EXCEPT !.height = h]

Heights == { 0, 250, 9000 }

\* C15: the destination point of destination / destination2 carries the
\* height and the datum of the start point, and the start point's height has
\* no influence on the latitude and longitude computed: the same solve from
\* the start point moved to any other height has the same kind of outcome,
\* the same latitude, longitude and final bearing, and that other height.
C15_Inherits ==
    (IsDirect(ret) /\ ret.op # "finalBearingOn") =>
        LET p == SelfOf(ret)
            r == _direct(p, ret.self, ret.op, ret.arg[1], ret.arg[2])
        IN  /\ ret.exc = "none" =>
                  /\ ret.val[1].height = p.height
                  /\ ret.val[1].datum = p.datum
            /\ \A h \in Heights :
                  LET q == _direct(AtHeight(p, h), ret.self, ret.op,
                                   ret.arg[1], ret.arg[2])
                  IN  /\ q.exc = r.exc
                      /\ q.n = r.n
                      /\ r.exc = "none" =>
                            /\ q.val[1] = AtHeight(r.val[1], h)
                            /\ q.val[1].lat = r.val[1].lat
                            /\ q.val[1].lon = r.val[1].lon
                            /\ r.op = "destination2" => q.val[2] = r.val[2]

\* a destination was returned from a start point 250 m up on OSGB36
C15_Witness ==
    /\ ret.op \in {"destination", "destination2"}
    /\ ret.exc = "none"
    /\ SelfOf(ret).height = 250
    /\ SelfOf(ret).datum = "OSGB36"
    /\ ret.val[1].height = 250
    /\ ret.val[1].lat # SelfOf(ret).lat

\* the outcome of distanceTo3 for the points of the inverse solve r
Triple(r) == _inverse(SelfOf(r), OtherOf(r), r.self, r.arg[1], "distanceTo3")

\* C16: for the same two points and config, each of distanceTo, distanceTo3,
\* initialBearingTo and finalBearingTo ends as distanceTo3 does (same error,
\* message and points, after the same number of iterations) and on success
\* returns exactly its component of the triple of distanceTo3: distanceTo the
\* distance as a single number, initialBearingTo the second and
\* finalBearingTo the third component.
C16_Components ==
    IsInverse(ret) =>
        LET T == Triple(ret)
        IN  /\ ret.exc = T.exc
            /\ ret.n = T.n
            /\ ret.exc # "none" => ret.val = T.val
            /\ ret.exc = "none" =>
                  /\ Len(T.val) = 3
                  /\ ret.op = "distanceTo" => ret.val = <<T.val[1]>>
                  /\ ret.op = "distanceTo3" => ret.val = T.val
                  /\ ret.op = "initialBearingTo" => ret.val = <<T.val[2]>>
                  /\ ret.op = "finalBearingTo" => ret.val = <<T.val[3]>>

\* finalBearingTo returned, after several iterations, a bearing that differs
\* from the initial bearing of the triple
C16_Witness ==
    /\ ret.op = "finalBearingTo"
    /\ ret.exc = "none"
    /\ ret.n > 2
    /\ ret.val[1] = Triple(ret).val[3]
    /\ ret.val[1] # Triple(ret).val[2]

\* the outcome of destination2 for the start, distance and bearing of the
\* direct solve r
Pair(r) == _direct(SelfOf(r), r.self, "destination2", r.arg[1], r.arg[2])

\* C17: for the same start point, distance, bearing and config, each of
\* destination, destination2 and finalBearingOn ends as destination2 does
\* (same error, message and points, after the same number of iterations);
\* on success destination returns exactly the point of the pair of
\* destination2 and finalBearingOn exactly its final bearing, a single
\* number with no destination point built.
C17_Components ==
    IsDirect(ret) =>
        LET T == Pair(ret)
        IN  /\ ret.exc = T.exc
            /\ ret.n = T.n
            /\ ret.exc # "none" => ret.val = T.val
            /\ ret.exc = "none" =>
                  /\ Len(T.val) = 2
                  /\ ret.op = "destination" => ret.val = <<T.val[1]>>
                  /\ ret.op = "destination2" => ret.val = T.val
                  /\ ret.op = "finalBearingOn" =>
                        /\ ret.val = <<T.val[2]>>
                        /\ DestinationsOf(ret) = {}

\* finalBearingOn returned the final bearing of a solve of several
\* iterations whose destination differs from the start
C17_Witness ==
    /\ ret.op = "finalBearingOn"
    /\ ret.exc = "none"
    /\ ret.n > 2
    /\ ret.val[1] = Pair(ret).val[2]
    /\ Pair(ret).val[1].lat # SelfOf(ret).lat

\* the outcome of the solve r computed from nothing but the points and the
\* arguments of the call
OutcomeAlone(points, r) ==
    IF IsDirect(r)
    THEN _direct(points[r.self], r.self, r.op, r.arg[1], r.arg[2])
    ELSE _inverse(points[r.self], points[r.arg[1]], r.self, r.arg[1], r.op)

\* C18: no step of a direct or inverse solve, whether it goes on, returns a
\* result or raises any error, changes a point (latitude, longitude, height,
\* datum, epsilon, iterations): the points change only by a setter called
\* while no solve runs.  The solver keeps no state between calls: whatever
\* solves ran before, the outcome of a call is the outcome computed from the
\* points and the arguments alone.
C18_Frame ==
    [][/\ pts' # pts => /\ call = Idle /\ call' = Idle
                        /\ IsSetter(ret'.op)
                        /\ \A k \in 1..Len(pts) : k # ret'.self => pts'[k] = pts[k]
       /\ (IsDirect(ret') \/ IsInverse(ret')) =>
              /\ pts' = pts
              /\ ret' = OutcomeAlone(pts', ret')]_vars

\* an inverse solve returned a result after a setter call and after solves
\* that raised no convergence and coincident points
C18_Witness ==
    /\ IsInverse(ret)
    /\ ret.exc = "none"
    /\ ret.n > 1
    /\ assigned[1]
    /\ \E e \in raised : e.text = "no convergence"
    /\ \E e \in raised : e.text = "coincident with"
    /\ ret = OutcomeAlone(pts, ret)

\* C19: solves running at once on independent points (no point shared, no
\* setter called meanwhile) do not interfere: however their iterations are
\* interleaved, each solve ends with the outcome it has when it runs alone
\* on its points.
C19_NoInterference ==
    [][(ret' # ret /\ (IsDirect(ret') \/ IsInverse(ret'))) =>
          /\ ret' = OutcomeAlone(pts', ret')
          /\ PointsOf(parked') \cap PointsOf(call) = {}
          /\ pts' = pts]_vars

\* a solve returned after several iterations while another solve, on other
\* points, is suspended in the middle of its loop
C19_Witness ==
    /\ IsInverse(ret)
    /\ ret.exc = "none"
    /\ ret.n > 2
    /\ parked # Idle
    /\ parked.pc = "loop"
    /\ parked.n > 1
    /\ parked.self \notin {ret.self, ret.arg[1]}

\* the point p under the config (e, n), assigned through the setters
Loosened(p, e, n) == iterations_setter(epsilon_setter(p, e), n)

\* epsilons 1e-12, 1e-9, 1e-3 and limits 3, 50, 199
LooserEpsilons == { PyFloat(0, 1), PyFloat(0, 1000), PyFloat(1000, 0) }

LooserLimits == { PyInt(3), PyInt(50), PyInt(199) }

\* the solve r on the points repeated with its receiver under the config
\* (e, n)
Retried(points, r, e, n) ==
    OutcomeAlone([points EXCEPT ![r.self] = Loosened(points[r.self], e, n)], r)

\* every config at least as loose as the receiver's gives the solve r a
\* result, after no more iterations
LoosenedSucceeds(points, r) ==
    \A e \in LooserEpsilons, n \in LooserLimits :
       (NumLe(epsilon(points[r.self]), e)
          /\ NumLe(iterations(points[r.self]), n)) =>
          LET q == Retried(points, r, e, n)
          IN  q.exc = "none" /\ q.n <= r.n

\* C20: a failed solve is terminal: an exhausted loop ends the call with no
\* convergence after exactly limit iterations, a failure of any kind leaves
\* no call running, no more iterations made than the limit and the config as
\* it was (no retry, no loosening inside the solver).  Loosening is monotone:
\* a solve that returns a result returns a result under every config with an
\* epsilon and a limit at least as large.
C20_Terminal ==
    [][/\ (call # Idle /\ call.pc = "loop" /\ Exhausted(call.n, call.limit)) =>
              /\ call' = Idle
              /\ Failed(ret', "VincentyError", "no convergence")
              /\ ret'.n = call.limit
       /\ ((IsDirect(ret') \/ IsInverse(ret')) /\ ret'.exc # "none") =>
              /\ call' = Idle
              /\ pts' = pts
              /\ ret'.n <= iterations(pts[ret'.self]).n
       /\ ((IsDirect(ret') \/ IsInverse(ret')) /\ ret'.exc = "none") =>
              LoosenedSucceeds(pts', ret')]_vars

\* a solve under limit 3 returned a result at its third iteration; under a
\* looser epsilon the same solve stops earlier
C20_Witness ==
    /\ IsDirect(ret)
    /\ ret.exc = "none"
    /\ iterations(SelfOf(ret)) = PyInt(3)
    /\ ret.n = 3
    /\ Retried(pts, ret, PyFloat(1000, 0), PyInt(199)).exc = "none"
    /\ Retried(pts, ret, PyFloat(1000, 0), PyInt(199)).n < 3
    /\ \E e \in raised : e.text = "no convergence"

\* C21: every VincentyError names the points involved: the coincident-points
\* error the receiver and then the other point, the no-convergence error of
\* the inverse solver the receiver and the other point, the no-convergence
\* error of the direct solver the start point.
C21_NamesPoints ==
    ((IsDirect(ret) \/ IsInverse(ret)) /\ ret.exc = "VincentyError") =>
        /\ ret.val.text \in {"coincident with", "no convergence"}
        /\ ret.val.text = "coincident with" =>
              IsInverse(ret) /\ ret.val.points = <<ret.self, ret.arg[1]>>
        /\ (ret.val.text = "no convergence" /\ IsInverse(ret)) =>
              ret.val.points = <<ret.self, ret.arg[1]>>
        /\ (ret.val.text = "no convergence" /\ IsDirect(ret)) =>
              ret.val.points = <<ret.self>>

\* the second point was found coincident with the first, which is another
\* object, after a direct and an inverse solve failed to converge
C21_Witness ==
    /\ IsInverse(ret)
    /\ Failed(ret, "VincentyError", "coincident with")
    /\ ret.self = 2
    /\ ret.val.points = <<2, 1>>
    /\ pts[1] # pts[2]
    /\ \E e \in raised : e.text = "no convergence"

\* x is the reference value within the tolerance
Near(x, reference, tolerance) == Abs(x - reference) <= tolerance

\* the point p lies at <<lat, lon>> on WGS84 and has the default config
DefaultAt(p, place) ==
    /\ p.lat = place[1] /\ p.lon = place[2] /\ p.datum = "WGS84"
    /\ epsilon(p) = _epsilon /\ iterations(p) = _iterations

Degenerate == call # Idle /\ call.method = "_direct" /\ call.c2a = 0

\* C23: in the direct solver, when cos^2(alpha) is below EPS the frame has
\* A = 1, B = 0 and sigma = distance / b; the first iteration adds a zero
\* correction, finds sigma unchanged and breaks, whatever epsilon and limit
\* the start point has, and the call then returns: it never raises no
\* convergence.
C23_Degenerate ==
    [][Degenerate =>
          /\ call.A = SCALE /\ call.B = 0
          /\ call.d = Div(call.arg[1], call.E.b)
          /\ call.pc = "loop" =>
                /\ call.n = 0
                /\ call' # Idle
                /\ call'.pc = "break"
                /\ call'.n = 1
                /\ call'.s = call.d
                /\ _ds(call.B, call'.cs[1], call'.ss[1], call'.c2sm[1]) = 0
          /\ call.pc = "break" =>
                /\ call' = Idle
                /\ ret'.exc = "none"
                /\ ret'.n = 1]_vars

\* a degenerate direct solve of 10000 km under limit 3 and epsilon 1e-3 has
\* made its one iteration
C23_Witness ==
    /\ Degenerate
    /\ call.pc = "break"
    /\ call.n = 1
    /\ call.arg[1] = 10000000
    /\ call.limit = 3
    /\ epsilon(pts[call.self]) # _epsilon

\* the inverse solve has left its loop by break
Broken == call # Idle /\ call.method = "_inverse" /\ call.pc = "break"

\* the last iteration of the running inverse solve took the equatorial
\* branch: |1 - sa * sa| < EPS for the sa it computed
LastEquatorial == Abs(SCALE - Mul(call.sa[1], call.sa[1])) < EPS

\* sigma refined by the A, B series from the values of the last iteration
Refined ==
    LET AB == _p2(call.c2a[1], call.E.e22)
    IN  Mul(AB[1], call.s[1] - _ds(AB[2], call.cs[1], call.ss[1], call.c2sm[1]))

\* C24: after the loop of the inverse solver sigma is refined exactly when
\* the last iteration took the non-equatorial branch; the midpoint term read
\* is then the one that iteration computed from its own cs and c2a, so the
\* call returns (no undefined name); when the last iteration took the
\* equatorial branch the refinement is skipped and the distance is
\* b * sigma.
C24_Refinement ==
    [][Broken =>
          /\ call' = Idle
          /\ ret'.exc = "none"
          /\ LastEquatorial <=> (call.c2a[1] = 0)
          /\ ~LastEquatorial =>
                /\ call.c2sm = << call.cs[1] - Div(2 * call.s1s2, call.c2a[1]) >>
                /\ ret'.op \in {"distanceTo", "distanceTo3"} =>
                      ret'.val[1] = Mul(call.E.b, Refined)
          /\ (LastEquatorial /\ ret'.op \in {"distanceTo", "distanceTo3"}) =>
                ret'.val[1] = Mul(call.E.b, call.s[1])]_vars

\* an inverse solve broke out of its loop after several iterations, the last
\* one on the non-equatorial branch with a refinement that changes sigma
C24_Witness ==
    /\ Broken
    /\ call.n > 2
    /\ ~LastEquatorial
    /\ call.op = "distanceTo"
    /\ Refined # call.s[1]

\* an iteration of the inverse solver is about to run
Iterating ==
    /\ call # Idle /\ call.method = "_inverse" /\ call.pc = "loop"
    /\ ~Exhausted(call.n, call.limit)

\* the divisor of  1 / hypot(1, t)  in _r3 for the latitude of p
ReducedDivisor(p) ==
    hypot(SCALE, Mul(SCALE - ellipsoid(p).f, tan(radians(p.lat))))

\* C25: no step of a solver divides by a value below EPS in absolute value.
\* In an iteration of the inverse solver that gets past the coincidence test
\* the divisor sin(sigma) is at least EPS, and cos^2(alpha) is the divisor
\* of the midpoint term only when its absolute value is at least EPS (it is
\* zeroed, and the midpoint term left alone, otherwise); the divisors
\* hypot(1, t) of _r3 and b * A of the direct solver are at least EPS; no
\* call ends in a ZeroDivisionError.
C25_Divisors ==
    [][/\ Iterating =>
             /\ InverseBody(call).pc # "zerodivision"
             /\ InverseBody(call).pc # "coincident" =>
                   /\ InverseBody(call).ss[1] >= EPS
                   /\ InverseBody(call).c2a[1] # 0 =>
                         Abs(InverseBody(call).c2a[1]) >= EPS
                   /\ InverseBody(call).c2a[1] = 0 =>
                         InverseBody(call).c2sm = call.c2sm
       /\ (call' # Idle /\ call'.method = "_direct") =>
             Mul(call'.E.b, call'.A) >= EPS
       /\ \A k \in 1..Len(pts) : ReducedDivisor(pts[k]) >= EPS
       /\ \A e \in raised' : e.exc # "ZeroDivisionError"]_vars

\* the coincidence test stopped a solve between two objects at the same
\* place, whose sin(sigma) is zero, before the division
C25_Witness ==
    /\ IsInverse(ret)
    /\ Failed(ret, "VincentyError", "coincident with")
    /\ ret.self # ret.arg[1]
    /\ ret.n = 1

\* sin(sigma) of the iteration of the solve between self and other that
\* starts from lambda = ll
SinSigma(self, other, ll) ==
    LET Hyp(f) == hypot(Mul(f.c2, sin(ll)), f.c1s2 - Mul(f.s1c2, cos(ll)))
    IN  Hyp(InverseFrameAt(self, other, 1, 2, "distanceTo"))

\* the iterations of the finished inverse solve r, on the points, whose
\* sin(sigma) is below EPS: r.hist[k] is the lambda iteration k starts from
Vanishing(points, r) ==
    { k \in 1..r.n :
        Coincident(SinSigma(points[r.self], points[r.arg[1]], r.hist[k])) }

\* C26: the inverse solver tests for coincidence in every iteration and
\* before the convergence test of that iteration.  An iteration whose
\* sin(sigma) is below EPS ends the call at once with the coincident error
\* and no value, the last iteration the limit allows included; a finished
\* solve had such an iteration exactly when it failed with the coincident
\* error, that iteration was its last, and a no-convergence failure comes
\* only after as many iterations as the limit, none of them coincident.
C26_EveryIteration ==
    [][/\ (Iterating /\ Coincident(InverseBody(call).ss[1])) =>
             /\ call' = Idle
             /\ Failed(ret', "VincentyError", "coincident with")
             /\ ret'.n = call.n + 1
             /\ ret'.n <= call.limit
       /\ (ret' # ret /\ IsInverse(ret') /\ ret'.n > 0) =>
             /\ (Vanishing(pts', ret') # {}) <=>
                   Failed(ret', "VincentyError", "coincident with")
             /\ Vanishing(pts', ret') \subseteq { ret'.n }
             /\ Failed(ret', "VincentyError", "no convergence") =>
                   ret'.n = iterations(pts'[ret'.self]).n]_vars

\* sin(sigma) fell below EPS on the third iteration of a solve limited to
\* three iterations, after two iterations that passed both tests
C26_Witness ==
    /\ IsInverse(ret)
    /\ Failed(ret, "VincentyError", "coincident with")
    /\ ret.n = 3
    /\ iterations(pts[ret.self]).n = 3

\* the running solve takes a step of its own from frame f to frame g
Iterated(f, g) == f # Idle /\ f.pc = "loop" /\ g # Idle /\ g.n = f.n + 1

\* the iterate of frame f: s in _direct, ll in _inverse
Iterate(f) == IF f.method = "_direct" THEN f.s ELSE f.ll

\* C27: a setter call interleaved with a running solve on the same point.
\* The limit is read once, when the loop starts: a setter leaves the frame
\* of the suspended solve as it is, every iteration of the solve runs below
\* the limit its frame holds and a no-convergence failure comes after
\* exactly that many iterations, whatever limit the point has by then.
\* Epsilon is read at every convergence test: an iteration breaks exactly
\* when its change is below the epsilon the point has at that iteration.
C27_Interleaved ==
    [][/\ (parked # Idle /\ pts' # pts) => parked' = parked
       /\ Iterated(call, call') =>
             /\ call.n < call.limit
             /\ call'.limit = call.limit
             /\ (call'.pc = "break") <=>
                   Converged(Iterate(call'), Iterate(call),
                             epsilon(pts[call.self]))
       /\ (call # Idle /\ call.pc = "loop" /\ ret' # ret /\
           Failed(ret', "VincentyError", "no convergence")) =>
             ret'.n = call.limit]_vars

\* a solve that returned after more iterations than the limit its point has
\* now, with an outcome that no solve left alone gives under any of the
\* assigned epsilons and limits: both were assigned while it ran
C27_Witness ==
    /\ IsInverse(ret)
    /\ ret.exc = "none"
    /\ ret.n > iterations(pts[ret.self]).n
    /\ \A e \in SharedEpsilonArgs, n \in SharedIterationsArgs :
          ret # Retried(pts, ret, e, n)

\* the point q mirrored in longitude about the point p
Mirror(p, q) == [q EXCEPT !.lon = 2 * p.lon - q.lon]

\* the solve of r repeated on the points with its target mirrored about its
\* receiver
Mirrored(points, r) ==
    _inverse(points[r.self], Mirror(points[r.self], points[r.arg[1]]),
             r.self, r.arg[1], r.op)

\* C28: the inverse solver uses the two longitudes only through the
\* absolute value of their difference.  The solve from p to q and the
\* solve from p to q mirrored in longitude about p have the same outcome:
\* the same distance, initial bearing and final bearing, after the same
\* iterates, or the same failure.
C28_Mirror ==
    (IsInverse(ret) /\ ret.n > 0) => Mirrored(pts, ret) = ret

\* a triple returned for a target west of the receiver whose initial
\* bearing points east
C28_Witness ==
    /\ IsInverse(ret)
    /\ ret.op = "distanceTo3"
    /\ ret.exc = "none"
    /\ OtherOf(ret).lon < SelfOf(ret).lon
    /\ ret.val[2] > 0
    /\ ret.val[2] < Deg(180, 0)

\* C29: the destination point of the direct solver does not carry the
\* convergence config of the start point: whatever epsilon and limit were
\* assigned on the start point, the returned point reads the defaults
\* 1e-12 and 50, while a copy of the start point reads the start point's.
C29_Defaults ==
    (IsDirect(ret) /\ ret.exc = "none") =>
        /\ \A p \in DestinationsOf(ret) :
              /\ epsilon(p) = PyFloat(0, 1)
              /\ iterations(p) = PyInt(50)
        /\ epsilon(copy(SelfOf(ret))) = epsilon(SelfOf(ret))
        /\ iterations(copy(SelfOf(ret))) = iterations(SelfOf(ret))

\* a destination returned from a start point assigned epsilon 1e-3 and
\* limit 3
C29_Witness ==
    /\ IsDirect(ret)
    /\ ret.exc = "none"
    /\ DestinationsOf(ret) # {}
    /\ epsilon(SelfOf(ret)) = PyFloat(1000, 0)
    /\ iterations(SelfOf(ret)) = PyInt(3)
    /\ epsilon(copy(SelfOf(ret))) = PyFloat(1000, 0)
    /\ iterations(copy(SelfOf(ret))) = PyInt(3)

\* the solve of r repeated with epsilon e and limit n assigned on its target
OtherConfigured(points, r, e, n) ==
    _inverse(points[r.self], Loosened(points[r.arg[1]], e, n),
             r.self, r.arg[1], r.op)

\* the solve of r in the other direction, from its target to its receiver
OtherWay(points, r) ==
    _inverse(points[r.arg[1]], points[r.self], r.arg[1], r.self, r.op)

\* C30: an inverse solve from p to q is governed by the epsilon and the limit
\* of the receiver p alone.  Whatever epsilon and limit are assigned on the
\* other point q, the outcome is the same; so the solve from p to q and the
\* solve from q to p can differ in outcome when p and q carry different
\* configs.
C30_ReceiverOnly ==
    (IsInverse(ret) /\ ret.n > 0 /\ ret.self # ret.arg[1]) =>
        \A e \in SharedEpsilonArgs, n \in SharedIterationsArgs :
           OtherConfigured(pts, ret, e, n) = ret

\* a distance returned by a solve from a receiver with the default config to
\* a point limited to three iterations, while the solve in the other
\* direction fails with no convergence
C30_Witness ==
    /\ IsInverse(ret)
    /\ ret.op = "distanceTo"
    /\ ret.exc = "none"
    /\ ret.self # ret.arg[1]
    /\ iterations(SelfOf(ret)) = PyInt(50)
    /\ iterations(OtherOf(ret)) = PyInt(3)
    /\ Failed(OtherWay(pts, ret), "VincentyError", "no convergence")

=============================================================================
